---- MODULE Spec2Model ----
(***************************************************************************)
(* A model of the cykura SDK swap simulation engine: TickMath,             *)
(* SqrtPriceMath, SwapMath, LiquidityMath, the tick data providers and the *)
(* Pool quote operations (getOutputAmount / getInputAmount / swap).        *)
(*                                                                         *)
(* The sources compute on JSBI arbitrary-precision integers.  TLC's        *)
(* integers are 32 bits wide, so a JSBI value is a record                  *)
(*     [neg |-> BOOLEAN, m |-> <<limb_1, ..., limb_n>>]                    *)
(* whose magnitude is sum limb_i * Base^(i-1), little endian, without      *)
(* leading zero limbs; zero is [neg |-> FALSE, m |-> <<>>].  An operation  *)
(* that throws returns [err |-> "<message>"] instead of a value.           *)
(***************************************************************************)
EXTENDS Integers, Sequences, FiniteSets, TLC

(***************************************************************************)
(* Magnitudes: naturals as little-endian limb sequences.  The operations   *)
(* are written with bounded quantifiers instead of limb-by-limb recursion  *)
(* wherever the carries allow it: the evaluator nests one frame per        *)
(* recursion level.                                                        *)
(***************************************************************************)
Base == 2^15

NGet(a, i) == IF i >= 1 /\ i <= Len(a) THEN a[i] ELSE 0

\* the sequence s as an explicit tuple (a function expression [i \in 1..n |-> e]
\* is otherwise evaluated anew at each application)
Tuple(s) == SubSeq(s, 1, Len(s))

\* a without its high zero limbs
NNorm(a) ==
  LET t  == Tuple(a)
      nz == {i \in 1..Len(t) : t[i] # 0}
  IN  IF nz = {} THEN <<>>
      ELSE SubSeq(t, 1, CHOOSE i \in nz : \A j \in nz : j <= i)

\* f[lo] + ... + f[hi]
RECURSIVE SumRange(_, _, _)
SumRange(f, lo, hi) ==
  IF lo > hi THEN 0
  ELSE IF lo = hi THEN f[lo]
  ELSE SumRange(f, lo, (lo + hi) \div 2) + SumRange(f, ((lo + hi) \div 2) + 1, hi)

\* the magnitude of a machine integer n >= 0
NFromInt(n) == NNorm(<<n % Base, (n \div Base) % Base, n \div (Base * Base)>>)

\* the number with digits s[i] in 0..(2 * Base - 2): position i carries out iff
\* some position j <= i overflows and every position between them is full
NCarry(s) ==
  LET t        == Tuple(s)
      carry(i) == \E j \in 1..i : t[j] >= Base /\ \A k \in (j + 1)..i : t[k] >= Base - 1
  IN  NNorm([i \in 1..(Len(t) + 1) |->
               (NGet(t, i) + (IF i > 1 /\ carry(i - 1) THEN 1 ELSE 0)) % Base])

NAdd(a, b) ==
  IF Len(a) = 0 THEN b
  ELSE IF Len(b) = 0 THEN a
  ELSE NCarry([i \in 1..(IF Len(a) > Len(b) THEN Len(a) ELSE Len(b)) |->
                 NGet(a, i) + NGet(b, i)])

\* a - b for a >= b: position i borrows iff some position j <= i is negative
\* and every position between them is empty
NSub(a, b) ==
  IF Len(b) = 0 THEN a ELSE
  LET d         == Tuple([i \in 1..Len(a) |-> a[i] - NGet(b, i)])
      borrow(i) == \E j \in 1..i : d[j] < 0 /\ \A k \in (j + 1)..i : d[k] <= 0
  IN  NNorm([i \in 1..Len(a) |->
               (d[i] - (IF i > 1 /\ borrow(i - 1) THEN 1 ELSE 0)) % Base])

\* -1, 0, 1 as a < b, a = b, a > b
NCmp(a, b) ==
  IF Len(a) > Len(b) THEN 1
  ELSE IF Len(a) < Len(b) THEN -1
  ELSE LET df == {i \in 1..Len(a) : a[i] # b[i]}
           t  == CHOOSE i \in df : \A j \in df : j <= i
       IN  IF df = {} THEN 0 ELSE IF a[t] > b[t] THEN 1 ELSE -1

\* a * k for 0 <= k < Base
NMulSmall(a, k) ==
  IF Len(a) = 0 \/ k = 0 THEN <<>>
  ELSE NCarry([i \in 1..(Len(a) + 1) |->
                 ((NGet(a, i) * k) % Base) + ((NGet(a, i - 1) * k) \div Base)])

\* the column sums of the limb products, low and high halves apart, for
\* operands of at most 16 limbs
NMul(a, b) ==
  LET n == Len(a)
      m == Len(b)
      prod(c, i) == IF c + 1 - i >= 1 /\ c + 1 - i <= m THEN a[i] * b[c + 1 - i] ELSE 0
      lo(c) == SumRange([i \in 1..n |-> prod(c, i) % Base], 1, n)
      hi(c) == SumRange([i \in 1..n |-> prod(c, i) \div Base], 1, n)
      e == Tuple([c \in 1..(n + m) |-> lo(c) + (IF c > 1 THEN hi(c - 1) ELSE 0)])
  IN  IF n = 0 \/ m = 0 THEN <<>>
      ELSE NCarry([c \in 1..(n + m + 1) |->
                     (IF c <= n + m THEN e[c] % Base ELSE 0)
                     + (IF c > 1 THEN e[c - 1] \div Base ELSE 0)])

\* a * 2^k
NShl(a, k) ==
  IF Len(a) = 0 THEN a
  ELSE [i \in 1..(k \div 15) |-> 0] \o NMulSmall(a, 2^(k % 15))

\* floor(a / 2^k)
NShr(a, k) ==
  LET q == k \div 15
      r == k % 15
  IN  IF q >= Len(a) THEN <<>>
      ELSE NNorm([i \in 1..(Len(a) - q) |->
                    (a[q + i] \div 2^r) + (NGet(a, q + i + 1) % 2^r) * 2^(15 - r)])

LimbBits(x) == Cardinality({k \in 0..14 : 2^k <= x})

\* number of significant bits
NBitLen(a) == IF a = <<>> THEN 0 ELSE (Len(a) - 1) * 15 + LimbBits(a[Len(a)])

\* the largest q in (qh - 2)..qh with v * q <= cur; the estimate qh from the
\* top limb of a normalised v is at most 2 too large
NQFix(v, cur, qh) ==
  IF NCmp(NMulSmall(v, qh), cur) <= 0 THEN qh
  ELSE IF NCmp(NMulSmall(v, qh - 1), cur) <= 0 THEN qh - 1
  ELSE qh - 2

\* one step of long division by the normalised v: the next limb of the dividend
\* joins the running remainder acc.r < v, the quotient acc.q gains a limb
NDivStep(v, limb, acc) ==
  LET cur == NNorm(<<limb>> \o acc.r)
      n   == Len(v)
      rt  == NGet(cur, n + 1) * Base + NGet(cur, n)
      qh  == IF rt \div v[n] > Base - 1 THEN Base - 1 ELSE rt \div v[n]
      qd  == NQFix(v, cur, qh)
  IN  [q |-> <<qd>> \o acc.q, r |-> NSub(cur, NMulSmall(v, qd))]

\* long division of u by the normalised v (top limb >= Base/2), from limb i
\* downwards.  (The test on acc.r has the evaluator finish a step before it
\* descends to the next one; a remainder is never longer than the divisor.)
RECURSIVE NDivAt(_, _, _, _)
NDivAt(u, v, i, acc) ==
  IF i = 0 \/ Len(acc.r) > Len(v) THEN acc
  ELSE NDivAt(u, v, i - 1, NDivStep(v, u[i], acc))

\* quotient and remainder of a by b # 0; the top Len(v) - 1 limbs of the
\* dividend are the first running remainder
NDivMod(a, b) ==
  IF NCmp(a, b) < 0 THEN [q |-> <<>>, r |-> a]
  ELSE LET sh  == 15 - LimbBits(b[Len(b)])
           u   == NShl(a, sh)
           v   == NShl(b, sh)
           k   == Len(u) - Len(v) + 1
           res == NDivAt(u, v, k, [q |-> <<>>, r |-> NNorm(SubSeq(u, k + 1, Len(u)))])
       IN  [q |-> NNorm(res.q), r |-> NShr(res.r, sh)]

LimbAnd(x, y) ==
  SumRange([k \in 0..14 |-> 2^k * ((x \div 2^k) % 2) * ((y \div 2^k) % 2)], 0, 14)

NAnd(a, b) ==
  NNorm([i \in 1..(IF Len(a) < Len(b) THEN Len(a) ELSE Len(b)) |-> LimbAnd(a[i], b[i])])

NOr(a, b) ==
  [i \in 1..(IF Len(a) > Len(b) THEN Len(a) ELSE Len(b)) |->
     NGet(a, i) + NGet(b, i) - LimbAnd(NGet(a, i), NGet(b, i))]

\* a AND NOT b
NAndNot(a, b) == NNorm([i \in 1..Len(a) |-> a[i] - LimbAnd(a[i], NGet(b, i))])

(***************************************************************************)
(* Calls.  An operation of the classes below is applied through Apply, one  *)
(* recursive operator that holds every call made inside another operation: *)
(* Class_method(...) is the call Class.method(...) of the source, and the   *)
(* definition  method(...)  further down is its body.                       *)
(***************************************************************************)
RECURSIVE Apply(_, _)

JSBI_add(a1, a2) == Apply("add", <<a1, a2>>)

JSBI_subtract(a1, a2) == Apply("subtract", <<a1, a2>>)

JSBI_multiply(a1, a2) == Apply("multiply", <<a1, a2>>)

JSBI_divide(a1, a2) == Apply("divide", <<a1, a2>>)

JSBI_remainder(a1, a2) == Apply("remainder", <<a1, a2>>)

JSBI_leftShift(a1, a2) == Apply("leftShift", <<a1, a2>>)

JSBI_signedRightShift(a1, a2) == Apply("signedRightShift", <<a1, a2>>)

JSBI_bitwiseAnd(a1, a2) == Apply("bitwiseAnd", <<a1, a2>>)

JSBI_bitwiseOr(a1, a2) == Apply("bitwiseOr", <<a1, a2>>)

JSBI_toNumber(a1) == Apply("toNumber", <<a1>>)

TickMath_getSqrtRatioAtTick(a1) == Apply("getSqrtRatioAtTick", <<a1>>)

TickMath_getTickAtSqrtRatio(a1) == Apply("getTickAtSqrtRatio", <<a1>>)

FullMath_mulDivRoundingUp(a1, a2, a3) == Apply("mulDivRoundingUp", <<a1, a2, a3>>)

SqrtPriceMath_getAmount0Delta(a1, a2, a3, a4) == Apply("getAmount0Delta", <<a1, a2, a3, a4>>)

SqrtPriceMath_getAmount1Delta(a1, a2, a3, a4) == Apply("getAmount1Delta", <<a1, a2, a3, a4>>)

SqrtPriceMath_getNextSqrtPriceFromInput(a1, a2, a3, a4) == Apply("getNextSqrtPriceFromInput", <<a1, a2, a3, a4>>)

SqrtPriceMath_getNextSqrtPriceFromOutput(a1, a2, a3, a4) == Apply("getNextSqrtPriceFromOutput", <<a1, a2, a3, a4>>)

SwapMath_computeSwapStep(a1, a2, a3, a4, a5) == Apply("computeSwapStep", <<a1, a2, a3, a4, a5>>)

TickDataProvider_getTick(provider, accounts, tick) ==
  Apply("getTick", <<provider, accounts, tick>>)
TickDataProvider_nextInitializedTickWithinOneWord(provider, accounts, tick, lte, spacing) ==
  Apply("nextInitializedTickWithinOneWord", <<provider, accounts, tick, lte, spacing>>)
LiquidityMath_addDelta(a1, a2) == Apply("addDelta", <<a1, a2>>)

new_Pool(a1, a2, a3, a4, a5) == Apply("Pool", <<a1, a2, a3, a4, a5>>)

Pool_swapIteration(a1, a2, a3, a4, a5, a6, a7) == Apply("swapIteration", <<a1, a2, a3, a4, a5, a6, a7>>)

(***************************************************************************)
(* JSBI: signed arbitrary-precision integers.  A thrown exception is the   *)
(* record [err |-> message]; every operation passes an exception in an     *)
(* operand through.                                                        *)
(***************************************************************************)
IsErr(x) == "err" \in DOMAIN x

Throw(msg) == [err |-> msg]

Big(neg, m) == [neg |-> neg /\ m # <<>>, m |-> m]

\* JSBI.BigInt(n) for a machine integer n
BigInt(n) == IF n < 0 THEN Big(TRUE, NFromInt(-n)) ELSE Big(FALSE, NFromInt(n))

\* the value of a magnitude of at most two limbs
NToInt(a) == NGet(a, 1) + Base * NGet(a, 2)

\* |x| < 2^30, so that x and sums of two such values are machine integers
FitsInt(x) == NBitLen(x.m) <= 30

\* the value of a JSBI / number for which FitsInt holds
ToInt(x) == IF x.neg THEN -NToInt(x.m) ELSE NToInt(x.m)

add(x, y) ==
  IF IsErr(x) THEN x ELSE IF IsErr(y) THEN y
  ELSE IF x.neg = y.neg THEN Big(x.neg, NAdd(x.m, y.m))
  ELSE IF NCmp(x.m, y.m) >= 0 THEN Big(x.neg, NSub(x.m, y.m))
  ELSE Big(y.neg, NSub(y.m, x.m))

unaryMinus(x) == IF IsErr(x) THEN x ELSE Big(~x.neg, x.m)

subtract(x, y) == IF IsErr(y) THEN (IF IsErr(x) THEN x ELSE y) ELSE JSBI_add(x, unaryMinus(y))

multiply(x, y) ==
  IF IsErr(x) THEN x ELSE IF IsErr(y) THEN y
  ELSE Big(x.neg # y.neg, NMul(x.m, y.m))

\* JSBI.divide truncates toward zero and throws a RangeError on a zero divisor
divide(x, y) ==
  IF IsErr(x) THEN x ELSE IF IsErr(y) THEN y
  ELSE IF y.m = <<>> THEN Throw("Division by zero")
  ELSE Big(x.neg # y.neg, NDivMod(x.m, y.m).q)

\* JSBI.remainder takes the sign of the dividend
remainder(x, y) ==
  IF IsErr(x) THEN x ELSE IF IsErr(y) THEN y
  ELSE IF y.m = <<>> THEN Throw("Division by zero")
  ELSE Big(x.neg, NDivMod(x.m, y.m).r)

\* shifts by a machine integer k >= 0
leftShift(x, k) == IF IsErr(x) THEN x ELSE Big(x.neg, NShl(x.m, k))

\* arithmetic shift: floor(x / 2^k)
signedRightShift(x, k) ==
  IF IsErr(x) THEN x
  ELSE IF ~x.neg THEN Big(FALSE, NShr(x.m, k))
  ELSE Big(TRUE, NAdd(NShr(NSub(x.m, <<1>>), k), <<1>>))

\* two's complement semantics: -a = NOT (a - 1)
bitwiseAnd(x, y) ==
  IF IsErr(x) THEN x ELSE IF IsErr(y) THEN y
  ELSE IF ~x.neg /\ ~y.neg THEN Big(FALSE, NAnd(x.m, y.m))
  ELSE IF x.neg /\ y.neg
    THEN Big(TRUE, NAdd(NOr(NSub(x.m, <<1>>), NSub(y.m, <<1>>)), <<1>>))
  ELSE IF x.neg THEN Big(FALSE, NAndNot(y.m, NSub(x.m, <<1>>)))
  ELSE Big(FALSE, NAndNot(x.m, NSub(y.m, <<1>>)))

bitwiseOr(x, y) ==
  IF IsErr(x) THEN x ELSE IF IsErr(y) THEN y
  ELSE IF ~x.neg /\ ~y.neg THEN Big(FALSE, NOr(x.m, y.m))
  ELSE IF x.neg /\ y.neg
    THEN Big(TRUE, NAdd(NAnd(NSub(x.m, <<1>>), NSub(y.m, <<1>>)), <<1>>))
  ELSE IF x.neg THEN Big(TRUE, NAdd(NAndNot(NSub(x.m, <<1>>), y.m), <<1>>))
  ELSE Big(TRUE, NAdd(NAndNot(NSub(y.m, <<1>>), x.m), <<1>>))

\* -1, 0, 1 as x < y, x = y, x > y (operands are values, not exceptions)
Cmp(x, y) ==
  IF x.neg # y.neg THEN (IF x.neg THEN -1 ELSE 1)
  ELSE IF x.neg THEN NCmp(y.m, x.m) ELSE NCmp(x.m, y.m)

equal(x, y) == Cmp(x, y) = 0

notEqual(x, y) == Cmp(x, y) # 0

lessThan(x, y) == Cmp(x, y) < 0

lessThanOrEqual(x, y) == Cmp(x, y) <= 0

greaterThan(x, y) == Cmp(x, y) > 0

greaterThanOrEqual(x, y) == Cmp(x, y) >= 0

\* JSBI.toNumber: the nearest IEEE-754 double (ties to even); the doubles that
\* occur are integers, so a number is again a record [neg, m].
toNumber(x) ==
  IF IsErr(x) THEN x
  ELSE IF NBitLen(x.m) <= 53 THEN x
  ELSE LET drop == NBitLen(x.m) - 53
           keep == NShr(x.m, drop)
           rest == NSub(x.m, NShl(keep, drop))
           half == NShl(<<1>>, drop - 1)
           c    == NCmp(rest, half)
           up   == c > 0 \/ (c = 0 /\ keep[1] % 2 = 1)
       IN  Big(x.neg, NShl(IF up THEN NAdd(keep, <<1>>) ELSE keep, drop))

\* the JSBI written as the decimal digit string ds
RECURSIVE NFromDigits(_, _)
NFromDigits(ds, i) ==
  IF i = 0 THEN <<>>
  ELSE LET high == NFromDigits(ds, i - 1)
       IN  IF Len(high) = 0 THEN NFromInt(ds[i])
           ELSE NAdd(NMulSmall(high, 10), NFromInt(ds[i]))

\* JSBI.BigInt('...') for the decimal digits ds
Dec(ds) == Apply("Dec", <<ds>>)

\* the JSBI written in hexadecimal as the 16-bit groups gs, most significant first
RECURSIVE NFromHex(_, _)
NFromHex(gs, i) ==
  IF i = 0 THEN <<>>
  ELSE LET high == NFromHex(gs, i - 1)
       IN  IF Len(high) = 0 THEN NFromInt(gs[i])
           ELSE NAdd(NShl(high, 16), NFromInt(gs[i]))

\* JSBI.BigInt('0x...') for the 16-bit groups gs
Hex(gs) == Apply("Hex", <<gs>>)

(***************************************************************************)
(* internalConstants and the constants of @uniswap/sdk-core                *)
(***************************************************************************)
\* the values are written out in limbs of 15 bits, least significant first
NEGATIVE_ONE == [neg |-> TRUE, m |-> <<1>>]

ZERO == [neg |-> FALSE, m |-> <<>>]

ONE == [neg |-> FALSE, m |-> <<1>>]

\* 2^32 = 4 * 2^30
Q32 == [neg |-> FALSE, m |-> <<0, 0, 4>>]

\* exponentiate(Q32, 2) = 2^64 = 16 * 2^60
Q64 == [neg |-> FALSE, m |-> <<0, 0, 0, 0, 16>>]

\* 2^128 - 1: eight limbs of 15 ones and one of 8 ones
MaxUint128 ==
  [neg |-> FALSE,
   m |-> <<32767, 32767, 32767, 32767, 32767, 32767, 32767, 32767, 255>>]

(***************************************************************************)
(* TickMath                                                                *)
(***************************************************************************)
MIN_TICK == -221818

MAX_TICK == -MIN_TICK

\* '65536' = 2 * 2^15
MIN_SQRT_RATIO == [neg |-> FALSE, m |-> <<0, 2>>]

\* '281474976710656' = 2^48 = 8 * 2^45
MAX_SQRT_RATIO == [neg |-> FALSE, m |-> <<0, 0, 0, 8>>]

mulShift(val, mulBy) == JSBI_signedRightShift(JSBI_multiply(val, mulBy), 128)

\* the multipliers of getSqrtRatioAtTick for the bits 0x2, 0x4, ..., 0x20000 of |tick|
ratioMultipliers ==
  << Hex(<<\hfff9, \h7272, \h373d, \h4000>>),
     Hex(<<\hfff2, \he50f, \h5f65, \h7000>>),
     Hex(<<\hffe5, \hcaca, \h7e10, \hf000>>),
     Hex(<<\hffcb, \h9843, \hd60f, \h7000>>),
     Hex(<<\hff97, \h3b41, \hfa98, \he800>>),
     Hex(<<\hff2e, \ha164, \h66c9, \hb000>>),
     Hex(<<\hfe5d, \hee04, \h6a9a, \h3800>>),
     Hex(<<\hfcbe, \h86c7, \h900b, \hb000>>),
     Hex(<<\hf987, \ha725, \h3ac6, \h5800>>),
     Hex(<<\hf339, \h2b08, \h22bb, \h6000>>),
     Hex(<<\he715, \h9475, \ha2ca, \hf000>>),
     Hex(<<\hd097, \hf3bd, \hfd2f, \h2000>>),
     Hex(<<\ha9f7, \h4646, \h2d9f, \h8000>>),
     Hex(<<\h70d8, \h69a1, \h56f3, \h1c00>>),
     Hex(<<\h31be, \h135f, \h97ed, \h3200>>),
     Hex(<<\h09aa, \h508b, \h5b85, \ha500>>),
     Hex(<<\h005d, \h6af8, \hdedc, \h582c>>) >>

\* the ladder of conditional mulShift steps, for the bits 2^i .. 0x20000
RECURSIVE ratioLadder(_, _, _)
ratioLadder(ratio, absTick, i) ==
  IF IsErr(ratio) \/ i > Len(ratioMultipliers) THEN ratio
  ELSE ratioLadder(IF (absTick \div 2^i) % 2 # 0
                     THEN mulShift(ratio, ratioMultipliers[i]) ELSE ratio,
                   absTick, i + 1)

\* the check of getSqrtRatioAtTick without Number.isInteger
IsIntegerOmitted(tick) == TRUE

\* Number.isInteger(tick): a JS number is a record [neg, m], and the number
\* half way between m and m + 1 carries the extra field half
IsInteger(tick) == "half" \notin DOMAIN tick

\* tick is a JS number
getSqrtRatioAtTick(tick) ==
  IF IsErr(tick) THEN tick
  ELSE IF ~(Cmp(tick, BigInt(MIN_TICK)) >= 0 /\ Cmp(tick, BigInt(MAX_TICK)) <= 0
            /\ IsInteger(tick))
    THEN Throw("TICK")
  ELSE LET absTick == NToInt(tick.m)
           ratio0  == IF absTick % 2 # 0
                        THEN Hex(<<\hfffc, \hb933, \hbd6f, \hb800>>)
                        ELSE Hex(<<1, 0, 0, 0, 0>>)
           ratio1  == ratioLadder(ratio0, absTick, 1)
           ratio   == IF Cmp(tick, ZERO) > 0 THEN JSBI_divide(MaxUint128, ratio1) ELSE ratio1
       IN  IF IsErr(ratio) THEN ratio
           ELSE IF greaterThan(JSBI_remainder(ratio, Q32), ZERO)
             THEN JSBI_add(JSBI_divide(ratio, Q32), ONE)
           ELSE JSBI_divide(ratio, Q32)

\* index of the highest set bit of x > 0
mostSignificantBit(x) == NBitLen(x.m) - 1

\* round i of the square-and-shift loop; st = [r, log_2]
log2Round(st, i) ==
  LET r1 == JSBI_signedRightShift(JSBI_multiply(st.r, st.r), 63)
      f  == JSBI_signedRightShift(r1, 64)
  IN  [r     |-> JSBI_signedRightShift(r1, ToInt(f)),
       log_2 |-> JSBI_bitwiseOr(st.log_2, JSBI_leftShift(f, 31 - i))]

\* the rounds i .. 13 of the loop
RECURSIVE log2Rounds(_, _)
log2Rounds(st, i) ==
  IF IsErr(st) \/ i >= 14 THEN st ELSE log2Rounds(log2Round(st, i), i + 1)

getTickAtSqrtRatio(sqrtRatioX32) ==
  IF IsErr(sqrtRatioX32) THEN sqrtRatioX32
  ELSE IF ~(greaterThanOrEqual(sqrtRatioX32, MIN_SQRT_RATIO)
            /\ lessThan(sqrtRatioX32, MAX_SQRT_RATIO))
    THEN Throw("SQRT_RATIO")
  ELSE LET sqrtRatioX64 == JSBI_leftShift(sqrtRatioX32, 32)
           msb   == mostSignificantBit(sqrtRatioX64)
           r     == IF msb >= 64 THEN JSBI_signedRightShift(sqrtRatioX64, msb - 63)
                    ELSE JSBI_leftShift(sqrtRatioX64, 63 - msb)
           log_2 == JSBI_leftShift(BigInt(msb - 64), 64)
           fin   == log2Rounds([r |-> r, log_2 |-> log_2], 0)
           log_sqrt10001 == JSBI_multiply(fin.log_2, Dec(<<9, 0, 8, 5, 6, 7, 2, 9, 8>>))
           tickLow  == JSBI_toNumber(JSBI_signedRightShift(
                         JSBI_subtract(log_sqrt10001, Dec(<<4, 2, 9, 4, 9, 6, 7, 2>>)), 32))
           tickHigh == JSBI_toNumber(JSBI_signedRightShift(
                         JSBI_add(log_sqrt10001, Dec(<<3, 6, 7, 7, 2, 1, 8, 8, 6, 4>>)), 32))
           atHigh   == TickMath_getSqrtRatioAtTick(tickHigh)
       IN  IF tickLow = tickHigh THEN tickLow
           ELSE IF IsErr(atHigh) THEN atHigh
           ELSE IF lessThanOrEqual(atHigh, sqrtRatioX32) THEN tickHigh
           ELSE tickLow

(***************************************************************************)
(* FullMath                                                                *)
(***************************************************************************)
\* ceil(a * b / denominator); the division throws on a zero denominator
mulDivRoundingUp(a, b, denominator) ==
  LET product == JSBI_multiply(a, b)
      result  == JSBI_divide(product, denominator)
  IN  IF IsErr(result) THEN result
      ELSE IF notEqual(JSBI_remainder(product, denominator), ZERO) THEN JSBI_add(result, ONE)
      ELSE result

(***************************************************************************)
(* SqrtPriceMath.  An operation that returns a price returns                *)
(* [val |-> price, arg |-> whether the returned object is the sqrtPX32      *)
(* argument itself], because Pool.swap compares prices by reference.        *)
(***************************************************************************)
multiplyIn128(x, y) == JSBI_bitwiseAnd(JSBI_multiply(x, y), Q64)

addIn128(x, y) == JSBI_bitwiseAnd(JSBI_add(x, y), Q64)

getAmount0Delta(sqrtRatioAX32, sqrtRatioBX32, liquidity, roundUp) ==
  LET lo == IF greaterThan(sqrtRatioAX32, sqrtRatioBX32) THEN sqrtRatioBX32 ELSE sqrtRatioAX32
      hi == IF greaterThan(sqrtRatioAX32, sqrtRatioBX32) THEN sqrtRatioAX32 ELSE sqrtRatioBX32
      numerator1 == JSBI_leftShift(liquidity, 32)
      numerator2 == JSBI_subtract(hi, lo)
  IN  IF roundUp
        THEN FullMath_mulDivRoundingUp(FullMath_mulDivRoundingUp(numerator1, numerator2, hi), ONE, lo)
        ELSE JSBI_divide(JSBI_divide(JSBI_multiply(numerator1, numerator2), hi), lo)

\* getAmount1Delta without the exchange of the prices given in descending order
getAmount1DeltaUnordered(sqrtRatioAX32, sqrtRatioBX32, liquidity, roundUp) ==
  IF roundUp
    THEN FullMath_mulDivRoundingUp(liquidity, JSBI_subtract(sqrtRatioBX32, sqrtRatioAX32), Q32)
    ELSE JSBI_divide(JSBI_multiply(liquidity, JSBI_subtract(sqrtRatioBX32, sqrtRatioAX32)), Q32)

getAmount1Delta(sqrtRatioAX32, sqrtRatioBX32, liquidity, roundUp) ==
  LET lo == IF greaterThan(sqrtRatioAX32, sqrtRatioBX32) THEN sqrtRatioBX32 ELSE sqrtRatioAX32
      hi == IF greaterThan(sqrtRatioAX32, sqrtRatioBX32) THEN sqrtRatioAX32 ELSE sqrtRatioBX32
  IN  IF roundUp
        THEN FullMath_mulDivRoundingUp(liquidity, JSBI_subtract(hi, lo), Q32)
        ELSE JSBI_divide(JSBI_multiply(liquidity, JSBI_subtract(hi, lo)), Q32)

Fresh(v) == IF IsErr(v) THEN v ELSE [val |-> v, arg |-> FALSE]

getNextSqrtPriceFromAmount0RoundingUp(sqrtPX32, liquidity, amount, addAmount) ==
  IF equal(amount, ZERO) THEN [val |-> sqrtPX32, arg |-> TRUE]
  ELSE LET numerator1 == JSBI_leftShift(liquidity, 32)
           product    == multiplyIn128(amount, sqrtPX32)
           undivided  == equal(JSBI_divide(product, amount), sqrtPX32)
           denominator == addIn128(numerator1, product)
       IN  IF addAmount
             THEN IF undivided /\ greaterThanOrEqual(denominator, numerator1)
                    THEN Fresh(FullMath_mulDivRoundingUp(numerator1, sqrtPX32, denominator))
                    ELSE Fresh(FullMath_mulDivRoundingUp(numerator1, ONE,
                                                JSBI_add(JSBI_divide(numerator1, sqrtPX32), amount)))
             ELSE IF ~undivided THEN Throw("Invariant failed")
             ELSE IF ~greaterThan(numerator1, product) THEN Throw("Invariant failed")
             ELSE Fresh(FullMath_mulDivRoundingUp(numerator1, sqrtPX32, JSBI_subtract(numerator1, product)))

\* getNextSqrtPriceFromAmount1RoundingDown without the invariant of the
\* remove branch
getNextSqrtPriceFromAmount1RoundingDownUnchecked(sqrtPX32, liquidity, amount, addAmount) ==
  IF addAmount
    THEN LET quotient == IF lessThanOrEqual(amount, Q32)
                           THEN JSBI_divide(JSBI_leftShift(amount, 32), liquidity)
                           ELSE JSBI_divide(JSBI_multiply(amount, Q32), liquidity)
         IN  IF IsErr(quotient) THEN quotient
             ELSE [val |-> JSBI_add(sqrtPX32, quotient), arg |-> equal(quotient, ZERO)]
    ELSE LET quotient == FullMath_mulDivRoundingUp(amount, Q32, liquidity)
         IN  IF IsErr(quotient) THEN quotient
             ELSE [val |-> JSBI_subtract(sqrtPX32, quotient), arg |-> equal(quotient, ZERO)]

\* JSBI.add and JSBI.subtract return their first operand when the second is zero
getNextSqrtPriceFromAmount1RoundingDown(sqrtPX32, liquidity, amount, addAmount) ==
  IF addAmount
    THEN LET quotient == IF lessThanOrEqual(amount, Q32)
                           THEN JSBI_divide(JSBI_leftShift(amount, 32), liquidity)
                           ELSE JSBI_divide(JSBI_multiply(amount, Q32), liquidity)
         IN  IF IsErr(quotient) THEN quotient
             ELSE [val |-> JSBI_add(sqrtPX32, quotient), arg |-> equal(quotient, ZERO)]
    ELSE LET quotient == FullMath_mulDivRoundingUp(amount, Q32, liquidity)
         IN  IF IsErr(quotient) THEN quotient
             ELSE IF ~greaterThan(sqrtPX32, quotient) THEN Throw("Invariant failed")
             ELSE [val |-> JSBI_subtract(sqrtPX32, quotient), arg |-> equal(quotient, ZERO)]

getNextSqrtPriceFromInput(sqrtPX32, liquidity, amountIn, zeroForOne) ==
  IF ~greaterThan(sqrtPX32, ZERO) THEN Throw("Invariant failed")
  ELSE IF ~greaterThan(liquidity, ZERO) THEN Throw("Invariant failed")
  ELSE IF zeroForOne
    THEN getNextSqrtPriceFromAmount0RoundingUp(sqrtPX32, liquidity, amountIn, TRUE)
    ELSE getNextSqrtPriceFromAmount1RoundingDown(sqrtPX32, liquidity, amountIn, TRUE)

getNextSqrtPriceFromOutput(sqrtPX32, liquidity, amountOut, zeroForOne) ==
  IF ~greaterThan(sqrtPX32, ZERO) THEN Throw("Invariant failed")
  ELSE IF ~greaterThan(liquidity, ZERO) THEN Throw("Invariant failed")
  ELSE IF zeroForOne
    THEN getNextSqrtPriceFromAmount1RoundingDown(sqrtPX32, liquidity, amountOut, FALSE)
    ELSE getNextSqrtPriceFromAmount0RoundingUp(sqrtPX32, liquidity, amountOut, FALSE)

(***************************************************************************)
(* SwapMath                                                                *)
(***************************************************************************)
MAX_FEE == BigInt(10^6)

\* the first exception among the values vs, or the value v
FirstErr(vs, v) ==
  IF \E i \in 1..Len(vs) : IsErr(vs[i])
    THEN vs[CHOOSE i \in 1..Len(vs) : IsErr(vs[i]) /\ \A j \in 1..(i - 1) : ~IsErr(vs[j])]
    ELSE v

\* computeSwapStep taking the rest of the amount as the fee in every case
swapStepResultRemainderAsFee(q, reached, next, amountIn, amountOut0) ==
  LET negRemaining == JSBI_multiply(q.amountRemaining, NEGATIVE_ONE)
      amountOut ==
        IF IsErr(amountOut0) THEN amountOut0
        ELSE IF ~q.exactIn /\ greaterThan(amountOut0, negRemaining) THEN negRemaining
        ELSE amountOut0
      feeAmount ==
        IF IsErr(amountIn) THEN amountIn
        ELSE JSBI_subtract(q.amountRemaining, amountIn)
  IN  FirstErr(<<amountIn, amountOut, feeAmount>>,
               [sqrtRatioNextX32 |-> next.val,
                amountIn  |-> amountIn,
                amountOut |-> amountOut,
                feeAmount |-> feeAmount,
                ref |-> IF reached THEN "target"
                        ELSE IF next.arg THEN "current" ELSE "fresh"])

\* computeSwapStep is written as a chain of operators, each taking the values
\* computed so far: q holds the arguments, zeroForOne and exactIn.
\* swapStepResult without the clamp of amountOut to the requested output
swapStepResultUnclamped(q, reached, next, amountIn, amountOut0) ==
  LET negRemaining == JSBI_multiply(q.amountRemaining, NEGATIVE_ONE)
      amountOut ==
        IF IsErr(amountOut0) THEN amountOut0
        ELSE amountOut0
      feeAmount ==
        IF IsErr(amountIn) THEN amountIn
        ELSE IF q.exactIn /\ notEqual(next.val, q.sqrtRatioTargetX32)
          THEN JSBI_subtract(q.amountRemaining, amountIn)
          ELSE FullMath_mulDivRoundingUp(amountIn, BigInt(q.feePips),
                                         JSBI_subtract(MAX_FEE, BigInt(q.feePips)))
  IN  FirstErr(<<amountIn, amountOut, feeAmount>>,
               [sqrtRatioNextX32 |-> next.val,
                amountIn  |-> amountIn,
                amountOut |-> amountOut,
                feeAmount |-> feeAmount,
                ref |-> IF reached THEN "target"
                        ELSE IF next.arg THEN "current" ELSE "fresh"])

\* the amounts, the fee and the result; ref tells which object
\* sqrtRatioNextX32 is: the target argument, the current-price argument, or a
\* newly computed value
swapStepResult(q, reached, next, amountIn, amountOut0) ==
  LET negRemaining == JSBI_multiply(q.amountRemaining, NEGATIVE_ONE)
      amountOut ==
        IF IsErr(amountOut0) THEN amountOut0
        ELSE IF ~q.exactIn /\ greaterThan(amountOut0, negRemaining) THEN negRemaining
        ELSE amountOut0
      feeAmount ==
        IF IsErr(amountIn) THEN amountIn
        ELSE IF q.exactIn /\ notEqual(next.val, q.sqrtRatioTargetX32)
          THEN JSBI_subtract(q.amountRemaining, amountIn)
          ELSE FullMath_mulDivRoundingUp(amountIn, BigInt(q.feePips),
                                         JSBI_subtract(MAX_FEE, BigInt(q.feePips)))
  IN  FirstErr(<<amountIn, amountOut, feeAmount>>,
               [sqrtRatioNextX32 |-> next.val,
                amountIn  |-> amountIn,
                amountOut |-> amountOut,
                feeAmount |-> feeAmount,
                ref |-> IF reached THEN "target"
                        ELSE IF next.arg THEN "current" ELSE "fresh"])

\* the amounts between the current price and the price after the step
swapStepAmounts(q, toTarget, reached, next, max) ==
  swapStepResult(q, reached, next,
    IF max /\ q.exactIn THEN toTarget
    ELSE IF q.zeroForOne
      THEN SqrtPriceMath_getAmount0Delta(next.val, q.sqrtRatioCurrentX32, q.liquidity, TRUE)
      ELSE SqrtPriceMath_getAmount1Delta(q.sqrtRatioCurrentX32, next.val, q.liquidity, TRUE),
    IF max /\ ~q.exactIn THEN toTarget
    ELSE IF q.zeroForOne
      THEN SqrtPriceMath_getAmount1Delta(next.val, q.sqrtRatioCurrentX32, q.liquidity, FALSE)
      ELSE SqrtPriceMath_getAmount0Delta(q.sqrtRatioCurrentX32, next.val, q.liquidity, FALSE))

\* the price after the step: the target when the amount available reaches it
swapStepNext(q, available, toTarget, reached) ==
  LET next == IF reached THEN [val |-> q.sqrtRatioTargetX32, arg |-> FALSE]
              ELSE IF q.exactIn
                THEN SqrtPriceMath_getNextSqrtPriceFromInput(
                       q.sqrtRatioCurrentX32, q.liquidity, available, q.zeroForOne)
                ELSE SqrtPriceMath_getNextSqrtPriceFromOutput(
                       q.sqrtRatioCurrentX32, q.liquidity, available, q.zeroForOne)
  IN  IF IsErr(next) THEN next
      ELSE swapStepAmounts(q, toTarget, reached, next,
                           equal(q.sqrtRatioTargetX32, next.val))

\* swapStepReach taking the step to the target whatever amount is available
swapStepReachAlways(q, available, toTarget) ==
  IF IsErr(toTarget) THEN toTarget
  ELSE swapStepNext(q, available, toTarget, TRUE)

\* available is amountRemainingLessFee (exact in) or the amount asked for
\* (exact out); toTarget is the amount needed to reach the target (exact in)
\* or obtainable up to it (exact out)
swapStepReach(q, available, toTarget) ==
  IF IsErr(toTarget) THEN toTarget
  ELSE swapStepNext(q, available, toTarget, greaterThanOrEqual(available, toTarget))

swapStepTarget(q) ==
  swapStepReach(q,
    IF q.exactIn
      THEN JSBI_divide(JSBI_multiply(q.amountRemaining,
                                     JSBI_subtract(MAX_FEE, BigInt(q.feePips))), MAX_FEE)
      ELSE JSBI_multiply(q.amountRemaining, NEGATIVE_ONE),
    IF q.exactIn
      THEN IF q.zeroForOne
             THEN SqrtPriceMath_getAmount0Delta(q.sqrtRatioTargetX32, q.sqrtRatioCurrentX32,
                                                q.liquidity, TRUE)
             ELSE SqrtPriceMath_getAmount1Delta(q.sqrtRatioCurrentX32, q.sqrtRatioTargetX32,
                                                q.liquidity, TRUE)
      ELSE IF q.zeroForOne
             THEN SqrtPriceMath_getAmount1Delta(q.sqrtRatioTargetX32, q.sqrtRatioCurrentX32,
                                                q.liquidity, FALSE)
             ELSE SqrtPriceMath_getAmount0Delta(q.sqrtRatioCurrentX32, q.sqrtRatioTargetX32,
                                                q.liquidity, FALSE))

computeSwapStep(sqrtRatioCurrentX32, sqrtRatioTargetX32, liquidity, amountRemaining, feePips) ==
  swapStepTarget([sqrtRatioCurrentX32 |-> sqrtRatioCurrentX32,
                  sqrtRatioTargetX32  |-> sqrtRatioTargetX32,
                  liquidity           |-> liquidity,
                  amountRemaining     |-> amountRemaining,
                  feePips             |-> feePips,
                  zeroForOne |-> greaterThanOrEqual(sqrtRatioCurrentX32, sqrtRatioTargetX32),
                  exactIn    |-> greaterThanOrEqual(amountRemaining, ZERO)])

(***************************************************************************)
(* LiquidityMath                                                           *)
(***************************************************************************)
addDelta(x, y) ==
  IF lessThan(y, ZERO) THEN JSBI_subtract(x, JSBI_multiply(y, NEGATIVE_ONE)) ELSE JSBI_add(x, y)

(***************************************************************************)
(* Tick bitmap positions and the tick directory                            *)
(***************************************************************************)
\* tickBySpacing >> 8 and tickBySpacing % 256 & 255 on a 32-bit integer; the
\* remainder of JavaScript takes the sign of the dividend
tickPosition(tickBySpacing) ==
  LET rem == IF tickBySpacing >= 0 THEN tickBySpacing % 256
             ELSE -((-tickBySpacing) % 256)
  IN  [wordPos |-> tickBySpacing \div 256,
       bitPos  |-> IF rem < 0 THEN rem + 256 ELSE rem]

\* Math.floor(tick / tickSpacing): the quotient of two 32-bit integers is a
\* double within 2^-53 of the exact quotient, which lies at least
\* 1 / tickSpacing from an integer it does not equal, so the floor is exact
compressedByFloor(tick, tickSpacing) == tick \div tickSpacing

\* JSBI.divide alone: the quotient truncated towards zero
compressedByDivideOnly(tick, tickSpacing) ==
  ToInt(toNumber(divide(BigInt(tick), BigInt(tickSpacing))))

\* JSBI.toNumber(JSBI.divide(tick, tickSpacing)), less one when tick < 0 and
\* tick % tickSpacing !== 0
compressedByDivide(tick, tickSpacing) ==
  ToInt(toNumber(divide(BigInt(tick), BigInt(tickSpacing))))
    - (IF tick < 0 /\ ToInt(remainder(BigInt(tick), BigInt(tickSpacing))) # 0
         THEN 1 ELSE 0)

\* compressed, wordPos and bitPos of a lookup, from the compressed tick
lookupPosition(compressed, lte) ==
  [compressed |-> compressed + (IF lte THEN 0 ELSE 1),
   wordPos |-> tickPosition(compressed + (IF lte THEN 0 ELSE 1)).wordPos,
   bitPos  |-> tickPosition(compressed + (IF lte THEN 0 ELSE 1)).bitPos]

\* the big-endian unsigned 32-bit seed of num, as two 16-bit halves
u32ToSeed(num) == <<(num \div 65536) % 65536, num % 65536>>

\* the big-endian unsigned 16-bit seed of num
u16ToSeed(num) == num % 65536

\* nearest set bit of word at or below bitPos (lte) or at or above it; word is
\* the set of the set bit positions
nextInitializedBit(word, bitPos, lte) ==
  LET hits == IF lte THEN {b \in word : b <= bitPos} ELSE {b \in word : b >= bitPos}
  IN  IF hits = {} THEN [next |-> IF lte THEN 0 ELSE 255, initialized |-> FALSE]
      ELSE [next |-> IF lte THEN CHOOSE b \in hits : \A c \in hits : c <= b
                     ELSE CHOOSE b \in hits : \A c \in hits : b <= c,
            initialized |-> TRUE]

\* the stored bitmap word at wordPos: the bits of the initialized ticks.
\* accounts is the tick store, a function from tick to liquidityNet
generateBitmapWord(accounts, wordPos, tickSpacing) ==
  {b \in 0..255 : (wordPos * 256 + b) * tickSpacing \in DOMAIN accounts}

\* the message of another method
NoTickDataProvider_OTHER_MESSAGE == "Method not implemented."

NoTickDataProvider_ERROR_MESSAGE == "No tick data provider was given"

\* the directory operations; provider is "none" (NoTickDataProvider) or
\* "solana" (SolanaTickDataProvider over the tick store accounts)
getTick(provider, accounts, tick) ==
  IF provider = "none" THEN Throw(NoTickDataProvider_ERROR_MESSAGE)
  ELSE IF tick \notin DOMAIN accounts THEN Throw("Account does not exist")
  ELSE [liquidityNet |-> BigInt(accounts[tick])]

getTickAddress(provider, tick) ==
  IF provider = "none" THEN Throw("Method not implemented.")
  ELSE [seed |-> "t", index |-> u32ToSeed(tick)]

\* program.account.tickBitmapState.fetch: the bitmap account of a word exists
\* when one of its ticks is initialized, and fetching a missing account throws
fetchTickBitmapState(accounts, wordPos, tickSpacing) ==
  IF generateBitmapWord(accounts, wordPos, tickSpacing) = {}
    THEN Throw("Account does not exist")
    ELSE [word |-> generateBitmapWord(accounts, wordPos, tickSpacing)]

\* nextInitializedTickWithinOneWord without the try / catch around the fetch
nextInitializedTickWithinOneWordUncaught(provider, accounts, tick, lte, tickSpacing) ==
  IF provider = "none" THEN Throw(NoTickDataProvider_ERROR_MESSAGE)
  ELSE LET pos == tickPosition((tick \div tickSpacing) + (IF lte THEN 0 ELSE 1))
           fetched == fetchTickBitmapState(accounts, pos.wordPos, tickSpacing)
       IN  IF IsErr(fetched) THEN fetched
           ELSE [tickNext |-> (pos.wordPos * 256
                               + nextInitializedBit(fetched.word, pos.bitPos, lte).next)
                              * tickSpacing,
                 initialized |-> nextInitializedBit(fetched.word, pos.bitPos, lte).initialized,
                 wordPos |-> pos.wordPos, bitPos |-> pos.bitPos,
                 bitmapState |-> [seed |-> "b", index |-> u16ToSeed(pos.wordPos)]]

\* a failed fetch of the bitmap account leaves the defaults: bit 0 or 255,
\* not initialized
nextInitializedTickWithinOneWord(provider, accounts, tick, lte, tickSpacing) ==
  IF provider = "none" THEN Throw(NoTickDataProvider_ERROR_MESSAGE)
  ELSE LET compressed == (tick \div tickSpacing) + (IF lte THEN 0 ELSE 1)
           pos        == tickPosition(compressed)
           fetched    == fetchTickBitmapState(accounts, pos.wordPos, tickSpacing)
           nextInitBit == IF IsErr(fetched)
                            THEN [next |-> IF lte THEN 0 ELSE 255, initialized |-> FALSE]
                            ELSE nextInitializedBit(fetched.word, pos.bitPos, lte)
       IN  [tickNext     |-> (pos.wordPos * 256 + nextInitBit.next) * tickSpacing,
            initialized  |-> nextInitBit.initialized,
            wordPos      |-> pos.wordPos,
            bitPos       |-> pos.bitPos,
            bitmapState  |-> [seed |-> "b", index |-> u16ToSeed(pos.wordPos)]]

(***************************************************************************)
(* Pool                                                                    *)
(***************************************************************************)
\* FeeAmount and TICK_SPACINGS
SUPER_STABLE == 20
TURBO_SPL == 80
LOW == 500
MEDIUM == 3000
HIGH == 10000

TICK_SPACINGS(fee) ==
  CASE fee = SUPER_STABLE -> 1
    [] fee = TURBO_SPL    -> 60
    [] fee = LOW          -> 10
    [] fee = MEDIUM       -> 60
    [] fee = HIGH         -> 200

\* new new_Pool(...): the pool value, or the exception of the constructor
Pool(fee, sqrtRatioX32, liquidity, tickCurrent, tickDataProvider) ==
  IF ~(fee < 1000000) THEN Throw("FEE")
  ELSE LET tickCurrentSqrtRatioX32 == TickMath_getSqrtRatioAtTick(tickCurrent)
       IN  IF IsErr(tickCurrentSqrtRatioX32) THEN tickCurrentSqrtRatioX32
           ELSE LET nextTickSqrtRatioX32 == TickMath_getSqrtRatioAtTick(JSBI_add(tickCurrent, ONE))
                IN  IF IsErr(nextTickSqrtRatioX32) THEN nextTickSqrtRatioX32
                    ELSE IF ~(greaterThanOrEqual(sqrtRatioX32, tickCurrentSqrtRatioX32)
                              /\ lessThanOrEqual(sqrtRatioX32, nextTickSqrtRatioX32))
                      THEN Throw("PRICE_BOUNDS")
                    ELSE [token0 |-> "token0", token1 |-> "token1", fee |-> fee,
                          sqrtRatioX32 |-> sqrtRatioX32, liquidity |-> liquidity,
                          tickCurrent |-> tickCurrent,
                          tickDataProvider |-> tickDataProvider]

\* get tickSpacing
tickSpacing(thisPool) == TICK_SPACINGS(thisPool.fee)

\* the value of an absent field, result or argument
Nil == [nil |-> TRUE]

IsNil(x) == "nil" \in DOMAIN x

(***************************************************************************)
(* Pool.swap.  Three versions of the class are in the repository:          *)
(*   "pool"     src/src/entities/pool.ts                                    *)
(*   "budget"   the version with the loopCount budget                       *)
(*   "nocheck"  the version without the amount check and the tick bounds    *)
(* state.priceIsLimit tells whether state.sqrtPriceX32 is the object        *)
(* sqrtPriceLimitX32: the loop compares the two by reference.               *)
(***************************************************************************)
\* the limit the swap works with
defaultLimit(zeroForOne, sqrtPriceLimitX32) ==
  IF ~IsNil(sqrtPriceLimitX32) THEN sqrtPriceLimitX32
  ELSE IF zeroForOne THEN JSBI_add(MIN_SQRT_RATIO, ONE) ELSE JSBI_subtract(MAX_SQRT_RATIO, ONE)

\* the invariants at the head of swap: the message of the one that fails, or ""
swapInvariant(version, thisPool, zeroForOne, amountSpecified, sqrtPriceLimitX32) ==
  IF version # "nocheck" /\ ~notEqual(amountSpecified, ZERO) THEN "AMOUNT_LESS_THAN_0"
  ELSE IF zeroForOne
    THEN IF ~greaterThan(sqrtPriceLimitX32, MIN_SQRT_RATIO) THEN "RATIO_MIN"
         ELSE IF ~lessThan(sqrtPriceLimitX32, thisPool.sqrtRatioX32) THEN "RATIO_CURRENT"
         ELSE ""
    ELSE IF ~lessThan(sqrtPriceLimitX32, MAX_SQRT_RATIO) THEN "RATIO_MAX"
         ELSE IF ~greaterThan(sqrtPriceLimitX32, thisPool.sqrtRatioX32) THEN "RATIO_CURRENT"
         ELSE ""

\* the scratch state of a swap
swapState(thisPool, amountSpecified) ==
  [amountSpecifiedRemaining |-> amountSpecified,
   amountCalculated |-> ZERO,
   sqrtPriceX32 |-> thisPool.sqrtRatioX32,
   priceIsLimit |-> FALSE,
   tick |-> thisPool.tickCurrent,
   accounts |-> <<>>,
   liquidity |-> thisPool.liquidity]

\* the while condition without the test of the price limit
swapLoopConditionIgnoringLimit(version, st) ==
  /\ notEqual(st.amountSpecifiedRemaining, ZERO)
  /\ \/ version = "nocheck"
     \/ /\ Cmp(st.tick, BigInt(MAX_TICK)) < 0
        /\ Cmp(st.tick, BigInt(MIN_TICK)) > 0

\* the condition of the while loop
swapLoopCondition(version, st) ==
  /\ notEqual(st.amountSpecifiedRemaining, ZERO)
  /\ ~st.priceIsLimit
  /\ \/ version = "nocheck"
     \/ /\ Cmp(st.tick, BigInt(MAX_TICK)) < 0
        /\ Cmp(st.tick, BigInt(MIN_TICK)) > 0

\* the account pushed for a bitmap word or a crossed tick
SwapAccount(pubkey, isWritable) ==
  [pubkey |-> pubkey, isWritable |-> isWritable, isSigner |-> FALSE]

\* swapCross adding liquidityNet whatever the direction
swapCrossSameSign(thisPool, store, zeroForOne, tickNext, accounts, liquidity) ==
  LET address == getTickAddress(thisPool.tickDataProvider, tickNext)
      fetched == TickDataProvider_getTick(thisPool.tickDataProvider, store, tickNext)
  IN  IF IsErr(address) THEN address
      ELSE IF IsErr(fetched) THEN fetched
      ELSE [accounts  |-> Append(accounts, SwapAccount(address, TRUE)),
            liquidity |-> LiquidityMath_addDelta(liquidity, fetched.liquidityNet)]

\* the tick transition at an initialized tick: [accounts, liquidity] or the
\* exception of the directory
swapCross(thisPool, store, zeroForOne, tickNext, accounts, liquidity) ==
  LET address == getTickAddress(thisPool.tickDataProvider, tickNext)
      fetched == TickDataProvider_getTick(thisPool.tickDataProvider, store, tickNext)
  IN  IF IsErr(address) THEN address
      ELSE IF IsErr(fetched) THEN fetched
      ELSE [accounts  |-> Append(accounts, SwapAccount(address, TRUE)),
            liquidity |-> LiquidityMath_addDelta(liquidity,
                                   IF zeroForOne
                                     THEN JSBI_multiply(fetched.liquidityNet, NEGATIVE_ONE)
                                     ELSE fetched.liquidityNet)]

\* swapSettle with the accounting of exact input and exact output exchanged
swapSettleModesExchanged(q, nextInitTick, tickNext, sqrtPriceNextX32, targetIsLimit, step) ==
  IF IsErr(step) THEN step
  ELSE
  LET inAndFee  == JSBI_add(step.amountIn, step.feeAmount)
      atNext    == equal(step.sqrtRatioNextX32, sqrtPriceNextX32)
      accounts  == IF q.savedWordPos # <<nextInitTick.wordPos>>
                     THEN Append(q.st.accounts,
                                 SwapAccount(nextInitTick.bitmapState, FALSE))
                     ELSE q.st.accounts
      crossed   == IF atNext /\ nextInitTick.initialized
                     THEN swapCross(q.thisPool, q.store, q.zeroForOne, tickNext, accounts,
                                    q.st.liquidity)
                     ELSE [accounts |-> accounts, liquidity |-> q.st.liquidity]
      newTick   == IF atNext THEN BigInt(IF q.zeroForOne THEN tickNext - 1 ELSE tickNext)
                   ELSE IF step.ref # "current"
                     THEN TickMath_getTickAtSqrtRatio(step.sqrtRatioNextX32)
                   ELSE q.st.tick
  IN  IF IsErr(crossed) THEN crossed
      ELSE IF IsErr(newTick) THEN newTick
      ELSE [state |->
              [amountSpecifiedRemaining |->
                 IF ~q.exactInput
                   THEN JSBI_subtract(q.st.amountSpecifiedRemaining, inAndFee)
                   ELSE JSBI_add(q.st.amountSpecifiedRemaining, step.amountOut),
               amountCalculated |->
                 IF ~q.exactInput
                   THEN JSBI_subtract(q.st.amountCalculated, step.amountOut)
                   ELSE JSBI_add(q.st.amountCalculated, inAndFee),
               sqrtPriceX32 |-> step.sqrtRatioNextX32,
               priceIsLimit |-> step.ref = "target" /\ targetIsLimit,
               tick |-> newTick,
               accounts |-> crossed.accounts,
               liquidity |-> crossed.liquidity],
            lastSavedWordPos |-> <<nextInitTick.wordPos>>,
            step |->
              [sqrtPriceStartX32 |-> q.st.sqrtPriceX32,
               tickNext          |-> tickNext,
               initialized       |-> nextInitTick.initialized,
               sqrtPriceNextX32  |-> sqrtPriceNextX32,
               amountIn          |-> step.amountIn,
               amountOut         |-> step.amountOut,
               feeAmount         |-> step.feeAmount,
               tickBefore        |-> q.st.tick,
               liquidityBefore   |-> q.st.liquidity,
               accountsBefore    |-> accounts,
               sameObject        |-> step.ref = "current",
               endsOnTickNext    |-> atNext,
               tickFetched       |-> atNext /\ nextInitTick.initialized,
               tickRecomputed    |-> ~atNext /\ step.ref # "current"]]

\* One iteration of the while loop, written as a chain of operators each
\* taking the values computed so far; q holds the arguments of swapIteration.
\* the part after computeSwapStep: the accounting, the tick transition and
\* the new tick
swapSettle(q, nextInitTick, tickNext, sqrtPriceNextX32, targetIsLimit, step) ==
  IF IsErr(step) THEN step
  ELSE
  LET inAndFee  == JSBI_add(step.amountIn, step.feeAmount)
      atNext    == equal(step.sqrtRatioNextX32, sqrtPriceNextX32)
      accounts  == IF q.savedWordPos # <<nextInitTick.wordPos>>
                     THEN Append(q.st.accounts,
                                 SwapAccount(nextInitTick.bitmapState, FALSE))
                     ELSE q.st.accounts
      crossed   == IF atNext /\ nextInitTick.initialized
                     THEN swapCross(q.thisPool, q.store, q.zeroForOne, tickNext, accounts,
                                    q.st.liquidity)
                     ELSE [accounts |-> accounts, liquidity |-> q.st.liquidity]
      newTick   == IF atNext THEN BigInt(IF q.zeroForOne THEN tickNext - 1 ELSE tickNext)
                   ELSE IF step.ref # "current"
                     THEN TickMath_getTickAtSqrtRatio(step.sqrtRatioNextX32)
                   ELSE q.st.tick
  IN  IF IsErr(crossed) THEN crossed
      ELSE IF IsErr(newTick) THEN newTick
      ELSE [state |->
              [amountSpecifiedRemaining |->
                 IF q.exactInput
                   THEN JSBI_subtract(q.st.amountSpecifiedRemaining, inAndFee)
                   ELSE JSBI_add(q.st.amountSpecifiedRemaining, step.amountOut),
               amountCalculated |->
                 IF q.exactInput
                   THEN JSBI_subtract(q.st.amountCalculated, step.amountOut)
                   ELSE JSBI_add(q.st.amountCalculated, inAndFee),
               sqrtPriceX32 |-> step.sqrtRatioNextX32,
               priceIsLimit |-> step.ref = "target" /\ targetIsLimit,
               tick |-> newTick,
               accounts |-> crossed.accounts,
               liquidity |-> crossed.liquidity],
            lastSavedWordPos |-> <<nextInitTick.wordPos>>,
            step |->
              [sqrtPriceStartX32 |-> q.st.sqrtPriceX32,
               tickNext          |-> tickNext,
               initialized       |-> nextInitTick.initialized,
               sqrtPriceNextX32  |-> sqrtPriceNextX32,
               amountIn          |-> step.amountIn,
               amountOut         |-> step.amountOut,
               feeAmount         |-> step.feeAmount,
               tickBefore        |-> q.st.tick,
               liquidityBefore   |-> q.st.liquidity,
               accountsBefore    |-> accounts,
               sameObject        |-> step.ref = "current",
               endsOnTickNext    |-> atNext,
               tickFetched       |-> atNext /\ nextInitTick.initialized,
               tickRecomputed    |-> ~atNext /\ step.ref # "current"]]

\* swapTarget with the price of the next tick as the target whatever the limit
swapTargetIgnoringLimit(q, nextInitTick, tickNext, sqrtPriceNextX32) ==
  IF IsErr(sqrtPriceNextX32) THEN sqrtPriceNextX32
  ELSE swapSettle(q, nextInitTick, tickNext, sqrtPriceNextX32, FALSE,
                  SwapMath_computeSwapStep(
                    q.st.sqrtPriceX32, sqrtPriceNextX32,
                    q.st.liquidity, q.st.amountSpecifiedRemaining, q.thisPool.fee))

\* the target of the step: the price of the next tick, or the limit when the
\* next tick lies beyond it
swapTarget(q, nextInitTick, tickNext, sqrtPriceNextX32) ==
  IF IsErr(sqrtPriceNextX32) THEN sqrtPriceNextX32
  ELSE LET targetIsLimit ==
             IF q.zeroForOne THEN lessThan(sqrtPriceNextX32, q.sqrtPriceLimitX32)
             ELSE greaterThan(sqrtPriceNextX32, q.sqrtPriceLimitX32)
       IN  swapSettle(q, nextInitTick, tickNext, sqrtPriceNextX32, targetIsLimit,
                      SwapMath_computeSwapStep(
                        q.st.sqrtPriceX32,
                        IF targetIsLimit THEN q.sqrtPriceLimitX32 ELSE sqrtPriceNextX32,
                        q.st.liquidity, q.st.amountSpecifiedRemaining, q.thisPool.fee))

swapPriceNext(q, nextInitTick, tickNext) ==
  swapTarget(q, nextInitTick, tickNext, TickMath_getSqrtRatioAtTick(BigInt(tickNext)))

\* the next tick, kept within MIN_TICK and MAX_TICK
swapTickNext(q, nextInitTick) ==
  IF IsErr(nextInitTick) THEN nextInitTick
  ELSE swapPriceNext(q, nextInitTick,
                     IF nextInitTick.tickNext < MIN_TICK THEN MIN_TICK
                     ELSE IF nextInitTick.tickNext > MAX_TICK THEN MAX_TICK
                     ELSE nextInitTick.tickNext)

\* one iteration of the while loop: [state, lastSavedWordPos] or the
\* exception that ends the swap.  lastSavedWordPos is <<>> while undefined
swapIteration(thisPool, store, zeroForOne, sqrtPriceLimitX32, exactInput, st, savedWordPos) ==
  IF ~FitsInt(st.tick) THEN Throw("UNMODELLED_TICK")
  ELSE swapTickNext([thisPool |-> thisPool, store |-> store, zeroForOne |-> zeroForOne,
                     sqrtPriceLimitX32 |-> sqrtPriceLimitX32, exactInput |-> exactInput,
                     st |-> st, savedWordPos |-> savedWordPos],
                    TickDataProvider_nextInitializedTickWithinOneWord(
                      thisPool.tickDataProvider, store, ToInt(st.tick), zeroForOne,
                      tickSpacing(thisPool)))

\* the value swap returns
swapResult(st) ==
  [amountCalculated |-> st.amountCalculated,
   sqrtRatioX32 |-> st.sqrtPriceX32,
   liquidity |-> st.liquidity,
   tickCurrent |-> st.tick,
   accounts |-> st.accounts]

\* the operation named f applied to the arguments args; the arguments are
\* evaluated once, before the call, as in the program
Apply(f, args) ==
  CHOOSE result \in {
      CASE f = "Dec" -> Big(FALSE, NFromDigits(a[1], Len(a[1])))
        [] f = "Hex" -> Big(FALSE, NFromHex(a[1], Len(a[1])))
        [] f = "getTick" -> getTick(a[1], a[2], a[3])
        [] f = "nextInitializedTickWithinOneWord" ->
             nextInitializedTickWithinOneWord(a[1], a[2], a[3], a[4], a[5])
        [] f = "add" -> add(a[1], a[2])
        [] f = "subtract" -> subtract(a[1], a[2])
        [] f = "multiply" -> multiply(a[1], a[2])
        [] f = "divide" -> divide(a[1], a[2])
        [] f = "remainder" -> remainder(a[1], a[2])
        [] f = "leftShift" -> leftShift(a[1], a[2])
        [] f = "signedRightShift" -> signedRightShift(a[1], a[2])
        [] f = "bitwiseAnd" -> bitwiseAnd(a[1], a[2])
        [] f = "bitwiseOr" -> bitwiseOr(a[1], a[2])
        [] f = "toNumber" -> toNumber(a[1])
        [] f = "getSqrtRatioAtTick" -> getSqrtRatioAtTick(a[1])
        [] f = "getTickAtSqrtRatio" -> getTickAtSqrtRatio(a[1])
        [] f = "mulDivRoundingUp" -> mulDivRoundingUp(a[1], a[2], a[3])
        [] f = "getAmount0Delta" -> getAmount0Delta(a[1], a[2], a[3], a[4])
        [] f = "getAmount1Delta" -> getAmount1Delta(a[1], a[2], a[3], a[4])
        [] f = "getNextSqrtPriceFromInput" -> getNextSqrtPriceFromInput(a[1], a[2], a[3], a[4])
        [] f = "getNextSqrtPriceFromOutput" -> getNextSqrtPriceFromOutput(a[1], a[2], a[3], a[4])
        [] f = "computeSwapStep" -> computeSwapStep(a[1], a[2], a[3], a[4], a[5])
        [] f = "addDelta" -> addDelta(a[1], a[2])
        [] f = "Pool" -> Pool(a[1], a[2], a[3], a[4], a[5])
        [] f = "swapIteration" -> swapIteration(a[1], a[2], a[3], a[4], a[5], a[6], a[7])
    : a \in {args} } : TRUE

(***************************************************************************)
(* The state machine                                                       *)
(***************************************************************************)
VARIABLES
  pool,              \* the Pool the operations are called on
  tickStateAccounts, \* the remote tick store: tick -> liquidityNet
  version,           \* which version of the Pool class is running
  pc,                \* "idle", "loop", "returned", "failed", "directory", "tickmath"
  call,              \* the operation in progress and its arguments
  state,             \* the scratch state of the swap
  lastSavedWordPos,  \* <<>> while undefined
  loopCount,         \* iterations completed (the version with the budget)
  lookups,           \* calls of the directory made by the swap
  swapReturn,        \* what swap returned, Nil before it returns
  outcome,           \* what the operation returned or threw
  tm,                \* the last TickMath calls
  stepComputations,  \* step of the last iteration of swap's loop and the number of
                     \* iterations that ended on the price of tickNext; Nil before
  bitmapCache,       \* the caching provider's bitmapCache: wordPos -> word
  tickCache,         \* the caching provider's tickCache: tick -> liquidityNet
  quotes             \* the quote calls running concurrently, by caller

vars == <<pool, tickStateAccounts, version, pc, call, state, lastSavedWordPos,
          loopCount, lookups, swapReturn, outcome, tm, stepComputations,
          bitmapCache, tickCache, quotes>>

\* bounds of the explored inputs
MaxAmountExp == 7
MaxLimitOffset == 150000
MaxDirectoryTick == 2
MaxDirectoryWord == 1

\* sqrt prices around 2^32, as offsets from it, and the price 0
PoolPriceOffsets == {-214732, -100000, 0, 100000, 214743}

PoolPrices == {JSBI_add(Q32, BigInt(off)) : off \in PoolPriceOffsets} \cup {ZERO}

PoolTicks == {MIN_TICK, -3, -2, -1, 0, 1}

PoolLiquidities == {BigInt(10^6), JSBI_leftShift(ONE, 40)}

Providers == {"none", "solana"}

\* the tick stores: an empty one and one with the ticks around 0
TickStores ==
  { <<>>,
    [t \in (-MaxDirectoryTick)..MaxDirectoryTick |->
       IF t % 2 = 0 THEN 300000 ELSE -200000] }

\* the pools the constructor accepts
ConstructedPools ==
  {candidate \in
     {new_Pool(SUPER_STABLE, price, liq, BigInt(t), provider) :
        price \in PoolPrices, liq \in PoolLiquidities, t \in PoolTicks,
        provider \in Providers} :
     ~IsErr(candidate)}

Amounts == {BigInt(0), BigInt(1), BigInt(2), BigInt(10^3), BigInt(10^MaxAmountExp)}

\* price limits: none, the two global bounds, and prices around the pool's
Limits(thisPool) ==
  {Nil, MIN_SQRT_RATIO, MAX_SQRT_RATIO, thisPool.sqrtRatioX32,
   JSBI_add(thisPool.sqrtRatioX32, BigInt(MaxLimitOffset)),
   JSBI_subtract(thisPool.sqrtRatioX32, BigInt(MaxLimitOffset))}

Tokens == {"token0", "token1", "other"}

InitCommon ==
  /\ pc = "idle"
  /\ call = Nil
  /\ state = Nil
  /\ lastSavedWordPos = <<>>
  /\ loopCount = 0
  /\ lookups = 0
  /\ swapReturn = Nil
  /\ outcome = Nil
  /\ tm = Nil
  /\ stepComputations = Nil
  /\ bitmapCache = <<>>
  /\ tickCache = <<>>
  /\ quotes = <<>>

Init ==
  /\ pool \in ConstructedPools
  /\ tickStateAccounts \in (IF pool.tickDataProvider = "none" THEN {<<>>} ELSE TickStores)
  /\ version = "pool"
  /\ InitCommon

\* Pool.swap up to the loop: the invariants and the scratch state
Swap(op, zeroForOne, amountSpecified, limitArg, sqrtPriceLimitX32) ==
  LET failed == swapInvariant(version, pool, zeroForOne, amountSpecified,
                              sqrtPriceLimitX32)
  IN  /\ call' = [op |-> op, zeroForOne |-> zeroForOne,
                  amountSpecified |-> amountSpecified,
                  limitArg |-> limitArg,
                  sqrtPriceLimitX32 |-> sqrtPriceLimitX32,
                  exactInput |-> greaterThanOrEqual(amountSpecified, ZERO)]
      /\ IF failed # ""
           THEN /\ pc' = "failed"
                /\ outcome' = Throw(failed)
                /\ state' = state
           ELSE /\ pc' = "loop"
                /\ outcome' = outcome
                /\ state' = swapState(pool, amountSpecified)
      /\ lastSavedWordPos' = IF version = "nocheck" THEN <<0>> ELSE <<>>
      /\ UNCHANGED <<pool, tickStateAccounts, version, loopCount, lookups, swapReturn, tm,
                 stepComputations,
                 bitmapCache, tickCache, quotes>>

\* pool.getOutputAmount(inputAmount, sqrtPriceLimitX32), up to the loop of swap
GetOutputAmount(currency, quotient, limitArg) ==
  /\ pc = "idle"
  /\ IF currency \notin {pool.token0, pool.token1}
       THEN /\ pc' = "failed"
            /\ outcome' = Throw("TOKEN")
            /\ UNCHANGED <<pool, tickStateAccounts, version, call, state,
                           lastSavedWordPos, loopCount, lookups, swapReturn, tm,
                 stepComputations,
                 bitmapCache, tickCache, quotes>>
       ELSE Swap("getOutputAmount", currency = pool.token0, quotient, limitArg,
                 defaultLimit(currency = pool.token0, limitArg))

\* pool.getInputAmount(outputAmount, sqrtPriceLimitX32), up to the loop of swap
GetInputAmount(currency, quotient, limitArg) ==
  /\ pc = "idle"
  /\ IF currency \notin {pool.token0, pool.token1}
       THEN /\ pc' = "failed"
            /\ outcome' = Throw("TOKEN")
            /\ UNCHANGED <<pool, tickStateAccounts, version, call, state,
                           lastSavedWordPos, loopCount, lookups, swapReturn, tm,
                 stepComputations,
                 bitmapCache, tickCache, quotes>>
       ELSE Swap("getInputAmount", currency = pool.token1,
                 JSBI_multiply(quotient, NEGATIVE_ONE), limitArg,
                 defaultLimit(currency = pool.token1, limitArg))

\* one iteration of the while loop of swap
SwapLoop ==
  /\ pc = "loop"
  /\ swapLoopCondition(version, state)
  /\ IF version = "budget" /\ loopCount > 8
       THEN /\ pc' = "failed"
            /\ outcome' = Throw("account limit")
            /\ UNCHANGED <<state, lastSavedWordPos, loopCount, lookups, stepComputations>>
       ELSE \E iteration \in {Pool_swapIteration(pool, tickStateAccounts, call.zeroForOne,
                                                 call.sqrtPriceLimitX32, call.exactInput,
                                                 state, lastSavedWordPos)} :
                /\ lookups' = lookups + 1
                /\ IF IsErr(iteration)
                     THEN /\ pc' = "failed"
                          /\ outcome' = iteration
                          /\ UNCHANGED <<state, lastSavedWordPos, loopCount,
                                         stepComputations>>
                     ELSE /\ pc' = "loop"
                          /\ outcome' = outcome
                          /\ state' = iteration.state
                          /\ lastSavedWordPos' = iteration.lastSavedWordPos
                          /\ stepComputations' =
                               [step |-> iteration.step,
                                ticksReached |->
                                  (IF IsNil(stepComputations) THEN 0
                                   ELSE stepComputations.ticksReached)
                                  + (IF iteration.step.endsOnTickNext THEN 1 ELSE 0)]
                          /\ loopCount' = IF version = "budget" THEN loopCount + 1
                                          ELSE loopCount
  /\ UNCHANGED <<pool, tickStateAccounts, version, call, swapReturn, tm,
                 bitmapCache, tickCache, quotes>>

\* SwapReturn storing the post-trade state in the pool it was called on
SwapReturnInPlace ==
  /\ pc = "loop"
  /\ ~swapLoopCondition(version, state)
  /\ \E returned \in {swapResult(state)} :
     \E newPool \in {new_Pool(pool.fee, returned.sqrtRatioX32, returned.liquidity,
                              returned.tickCurrent, pool.tickDataProvider)} :
         /\ swapReturn' = returned
         /\ IF IsErr(newPool)
              THEN /\ pc' = "failed"
                   /\ pool' = pool
                   /\ outcome' = newPool
              ELSE /\ pc' = "returned"
                   /\ pool' = newPool
                   /\ outcome' = [amount |-> IF call.op = "getOutputAmount"
                                               THEN JSBI_multiply(returned.amountCalculated,
                                                             NEGATIVE_ONE)
                                               ELSE returned.amountCalculated,
                                  pool |-> newPool,
                                  accounts |-> returned.accounts]
  /\ UNCHANGED <<tickStateAccounts, version, call, state, lastSavedWordPos,
                 loopCount, lookups, tm, stepComputations,
                 bitmapCache, tickCache, quotes>>

\* the loop is over: swap returns, and the operation builds the new Pool
SwapReturn ==
  /\ pc = "loop"
  /\ ~swapLoopCondition(version, state)
  /\ \E returned \in {swapResult(state)} :
     \E newPool \in {new_Pool(pool.fee, returned.sqrtRatioX32, returned.liquidity,
                              returned.tickCurrent, pool.tickDataProvider)} :
         /\ swapReturn' = returned
         /\ IF IsErr(newPool)
              THEN /\ pc' = "failed"
                   /\ outcome' = newPool
              ELSE /\ pc' = "returned"
                   /\ outcome' = [amount |-> IF call.op = "getOutputAmount"
                                               THEN JSBI_multiply(returned.amountCalculated,
                                                             NEGATIVE_ONE)
                                               ELSE returned.amountCalculated,
                                  pool |-> newPool,
                                  accounts |-> returned.accounts]
  /\ UNCHANGED <<pool, tickStateAccounts, version, call, state, lastSavedWordPos,
                 loopCount, lookups, tm, stepComputations,
                 bitmapCache, tickCache, quotes>>

\* the ticks the directory is asked about: the first two and the last bit of
\* the words around 0
DirectoryTicks ==
  {w * 256 + b : w \in (-MaxDirectoryWord)..MaxDirectoryWord, b \in {0, 1, 255}}

DirectoryOps == {"getTick", "getTickAddress", "nextInitializedTickWithinOneWord"}

\* one call of pool.tickDataProvider
DirectoryCall(op, tick, lte, spacing) ==
  /\ pc = "idle"
  /\ pc' = "directory"
  /\ call' = [op |-> op, tick |-> tick, lte |-> lte, tickSpacing |-> spacing]
  /\ outcome' =
       CASE op = "getTick" -> getTick(pool.tickDataProvider, tickStateAccounts, tick)
         [] op = "getTickAddress" -> getTickAddress(pool.tickDataProvider, tick)
         [] op = "nextInitializedTickWithinOneWord" ->
              nextInitializedTickWithinOneWord(pool.tickDataProvider, tickStateAccounts,
                                               tick, lte, spacing)
  /\ UNCHANGED <<pool, tickStateAccounts, version, state, lastSavedWordPos, loopCount,
                 lookups, swapReturn, tm, stepComputations,
                 bitmapCache, tickCache, quotes>>

Next ==
  \/ \E currency \in Tokens, quotient \in Amounts, limitArg \in Limits(pool) :
       GetOutputAmount(currency, quotient, limitArg)
  \/ \E currency \in Tokens, quotient \in Amounts, limitArg \in Limits(pool) :
       GetInputAmount(currency, quotient, limitArg)
  \/ SwapLoop
  \/ SwapReturn
  \/ \E op \in DirectoryOps, tick \in DirectoryTicks, lte \in BOOLEAN,
        spacing \in {TICK_SPACINGS(SUPER_STABLE), TICK_SPACINGS(MEDIUM)} :
       DirectoryCall(op, tick, lte, spacing)

Spec == Init /\ [][Next]_vars

\* swap is one synchronous call: once it is in its loop it keeps executing,
\* every iteration asking the directory once (lookups) and the end of the
\* call changing pc
SwapRuns ==
  /\ pc = "loop"
  /\ pc' \in {"loop", "returned", "failed"}
  /\ lookups' \in {lookups, lookups + 1}

SpecTermination == Init /\ [][Next]_vars /\ WF_<<pc, lookups>>(SwapRuns)

\* the version of Pool.swap with the loopCount budget
InitBudget ==
  /\ pool \in ConstructedPools
  /\ tickStateAccounts \in (IF pool.tickDataProvider = "none" THEN {<<>>} ELSE TickStores)
  /\ version = "budget"
  /\ InitCommon

SpecBudget == InitBudget /\ [][Next]_vars

\* the version of Pool.swap without the amount check
InitNoCheck ==
  /\ pool \in ConstructedPools
  /\ tickStateAccounts \in (IF pool.tickDataProvider = "none" THEN {<<>>} ELSE TickStores)
  /\ version = "nocheck"
  /\ InitCommon

SpecNoCheck == InitNoCheck /\ [][Next]_vars

(***************************************************************************)
(* Two quote calls running concurrently on one Pool whose directory is the  *)
(* caching SolanaTickDataProvider: each call has its own scratch state and  *)
(* the calls share bitmapCache and tickCache.  A call runs without          *)
(* interruption between two awaits; the awaits that let the other call run  *)
(* are the fetches of a bitmap word and of a tick after a cache miss, and   *)
(* the return of every directory call                                       *)
(***************************************************************************)
Callers == {1, 2}

\* Pool.swap run to its end on its own: the value it returns or the exception
RECURSIVE swapLoop(_, _, _, _, _, _, _)
swapLoop(thisPool, store, zeroForOne, sqrtPriceLimitX32, exactInput, st, savedWordPos) ==
  IF ~swapLoopCondition("pool", st) THEN swapResult(st)
  ELSE LET iteration == Pool_swapIteration(thisPool, store, zeroForOne, sqrtPriceLimitX32,
                                           exactInput, st, savedWordPos)
       IN  IF IsErr(iteration) THEN iteration
           ELSE swapLoop(thisPool, store, zeroForOne, sqrtPriceLimitX32, exactInput,
                         iteration.state, iteration.lastSavedWordPos)

swap(thisPool, store, zeroForOne, amountSpecified, sqrtPriceLimitX32) ==
  IF swapInvariant("pool", thisPool, zeroForOne, amountSpecified, sqrtPriceLimitX32) # ""
    THEN Throw(swapInvariant("pool", thisPool, zeroForOne, amountSpecified,
                             sqrtPriceLimitX32))
    ELSE swapLoop(thisPool, store, zeroForOne, sqrtPriceLimitX32,
                  greaterThanOrEqual(amountSpecified, ZERO),
                  swapState(thisPool, amountSpecified), <<>>)

\* what getOutputAmount / getInputAmount return for the value swap returned
\* and the Pool built from it
quoteValue(op, returned, newPool) ==
  IF IsErr(newPool) THEN newPool
  ELSE [amount |-> IF op = "getOutputAmount"
                     THEN multiply(returned.amountCalculated, NEGATIVE_ONE)
                     ELSE returned.amountCalculated,
        pool |-> newPool,
        accounts |-> returned.accounts]

\* the end of a quote whose swap ended with returned: the value of swap, and
\* the value or the exception of the quote
quoteResult(thisPool, op, returned) ==
  IF IsErr(returned) THEN [swapReturn |-> Nil, outcome |-> returned]
  ELSE [swapReturn |-> returned,
        outcome |-> quoteValue(op, returned,
                               new_Pool(thisPool.fee, returned.sqrtRatioX32,
                                        returned.liquidity, returned.tickCurrent,
                                        thisPool.tickDataProvider))]

\* the word position of the lookup made from tick
lookupWordPos(tick, lte, spacing) ==
  tickPosition((tick \div spacing) + (IF lte THEN 0 ELSE 1)).wordPos

\* a Map.has that never finds the key
MapHasNever(cache, key) == FALSE

\* Map.has, and the test of the value Map.get returns: the entries stored are
\* objects, so the two agree
MapHas(cache, key) == key \in DOMAIN cache

\* Map.set
MapSet(cache, key, value) ==
  [k \in DOMAIN cache \cup {key} |-> IF k = key THEN value ELSE cache[k]]

\* the change of the sign of liquidityNet made in place in the cached record
tickCacheNegatedInPlace(cache, tick, zeroForOne) ==
  IF zeroForOne /\ tick \in DOMAIN cache THEN MapSet(cache, tick, -(cache[tick]))
  ELSE cache

\* tickCache after a call has used the record of tick: the record is as it
\* was, since JSBI.multiply(liquidityNet, NEGATIVE_ONE) makes a new value
tickCacheAfterUse(cache, tick, zeroForOne) == cache

\* the ticks a call sees through the word it holds and the tick cache
cachedView(word, wordPos, spacing, cache) ==
  [t \in {(wordPos * 256 + b) * spacing : b \in word} |->
     IF t \in DOMAIN cache THEN cache[t] ELSE 0]

IdleQuote ==
  [pc |-> "idle", call |-> Nil, state |-> Nil, lastSavedWordPos |-> <<>>,
   cachedState |-> Nil, bitmapHits |-> 0, tickHits |-> 0, swapReturn |-> Nil, outcome |-> Nil]

\* pools quoted concurrently: a price between the prices of ticks 0 and 1
ConcurrentPools ==
  {candidate \in ConstructedPools :
     /\ candidate.tickDataProvider = "solana"
     /\ equal(candidate.liquidity, BigInt(10^6))
     /\ equal(candidate.sqrtRatioX32, add(Q32, BigInt(100000)))}

ConcurrentAmounts == {BigInt(10^3)}

\* the limit of a concurrent quote: the price of tick 0 on the way down and
\* of tick 1 on the way up
ConcurrentLimit(zeroForOne) ==
  IF zeroForOne THEN Q32 ELSE add(Q32, BigInt(214743))

InitConcurrent ==
  /\ pool \in ConcurrentPools
  /\ tickStateAccounts \in TickStores \ {<<>>}
  /\ version = "pool"
  /\ pc = "concurrent"
  /\ call = Nil
  /\ state = Nil
  /\ lastSavedWordPos = <<>>
  /\ loopCount = 0
  /\ lookups = 0
  /\ swapReturn = Nil
  /\ outcome = Nil
  /\ tm = Nil
  /\ stepComputations = Nil
  /\ bitmapCache = <<>>
  /\ tickCache = <<>>
  /\ quotes = [c \in Callers |-> IdleQuote]

QuoteUnchanged ==
  UNCHANGED <<pool, tickStateAccounts, version, pc, call, state, lastSavedWordPos,
              loopCount, lookups, swapReturn, outcome, tm, stepComputations>>

\* getBitmap: the word from the cache, or the start of its fetch
QuoteLookupFrom(q) ==
  LET wordPos == lookupWordPos(ToInt(q.state.tick), q.call.zeroForOne, tickSpacing(pool))
  IN  IF wordPos \in DOMAIN bitmapCache
        THEN [q EXCEPT !.pc = "step",
                       !.cachedState = [wordPos |-> wordPos, word |-> bitmapCache[wordPos]],
                       !.bitmapHits = @ + 1]
        ELSE [q EXCEPT !.pc = "fetchBitmap",
                       !.cachedState = [wordPos |-> wordPos]]

\* swap has returned and the quote ends with result
QuoteEnd(q, result) ==
  [q EXCEPT !.pc = IF IsErr(result.outcome) THEN "failed" ELSE "returned",
            !.swapReturn = result.swapReturn,
            !.outcome = result.outcome]

\* the head of an iteration of the loop, or the end of swap and of the quote
QuoteContinue(q) ==
  IF swapLoopCondition("pool", q.state)
    THEN IF FitsInt(q.state.tick) THEN QuoteLookupFrom(q)
         ELSE [q EXCEPT !.pc = "failed", !.outcome = Throw("UNMODELLED_TICK")]
    ELSE QuoteEnd(q, CHOOSE result \in {quoteResult(pool, q.call.op, swapResult(q.state))} :
                       TRUE)

\* the call as swap receives it
QuoteCall(q, op, zeroForOne, amountSpecified, sqrtPriceLimitX32) ==
  [q EXCEPT !.call = [op |-> op, zeroForOne |-> zeroForOne,
                      amountSpecified |-> amountSpecified,
                      sqrtPriceLimitX32 |-> sqrtPriceLimitX32,
                      exactInput |-> greaterThanOrEqual(amountSpecified, ZERO)],
            !.state = swapState(pool, amountSpecified)]

\* a caller calls pool.getOutputAmount or pool.getInputAmount with a price
\* limit: the call runs up to its first lookup
QuoteStart(c, op, zeroForOne, quotient, sqrtPriceLimitX32) ==
  /\ pc = "concurrent"
  /\ quotes[c].pc = "idle"
  /\ \E amountSpecified \in {IF op = "getOutputAmount" THEN quotient
                              ELSE multiply(quotient, NEGATIVE_ONE)} :
     \E failed \in {swapInvariant("pool", pool, zeroForOne, amountSpecified,
                                  sqrtPriceLimitX32)} :
     \E started \in {QuoteCall(quotes[c], op, zeroForOne, amountSpecified,
                                   sqrtPriceLimitX32)} :
       quotes' = [quotes EXCEPT ![c] =
                    IF failed # ""
                      THEN [started EXCEPT !.pc = "failed", !.outcome = Throw(failed)]
                      ELSE QuoteContinue(started)]
  /\ UNCHANGED <<bitmapCache, tickCache>>
  /\ QuoteUnchanged

\* the fetch of the bitmap account returns: the word is stored in the cache
QuoteBitmapFetched(c) ==
  /\ pc = "concurrent"
  /\ quotes[c].pc = "fetchBitmap"
  /\ \E word \in {generateBitmapWord(tickStateAccounts, quotes[c].cachedState.wordPos,
                                     tickSpacing(pool))} :
       /\ bitmapCache' = MapSet(bitmapCache, quotes[c].cachedState.wordPos, word)
       /\ quotes' = [quotes EXCEPT ![c].pc = "step",
                                   ![c].cachedState = [wordPos |-> @.wordPos,
                                                       word |-> word]]
  /\ UNCHANGED tickCache
  /\ QuoteUnchanged

\* the iteration of the call c on the ticks it sees
QuoteIteration(c, cache) ==
  Pool_swapIteration(pool,
                     cachedView(quotes[c].cachedState.word, quotes[c].cachedState.wordPos,
                                tickSpacing(pool), cache),
                     quotes[c].call.zeroForOne, quotes[c].call.sqrtPriceLimitX32,
                     quotes[c].call.exactInput, quotes[c].state,
                     quotes[c].lastSavedWordPos)

\* the iteration is complete: the scratch state of the call is updated and
\* the call goes on to the next iteration or returns
QuoteCommit(q, iteration) ==
  QuoteContinue([q EXCEPT !.state = iteration.state,
                          !.lastSavedWordPos = iteration.lastSavedWordPos,
                          !.cachedState = Nil])

\* nextInitializedTickWithinOneWord has returned: the step is computed, and
\* at an initialized tick getTick takes the record from the cache or starts
\* its fetch
QuoteStep(c) ==
  /\ pc = "concurrent"
  /\ quotes[c].pc = "step"
  /\ \E iteration \in {QuoteIteration(c, tickCache)} :
     \E getsTick \in {~IsErr(iteration) /\ iteration.step.tickFetched} :
     \E cached \in {getsTick /\ iteration.step.tickNext \in DOMAIN tickCache} :
       /\ quotes' = [quotes EXCEPT ![c] =
                       IF IsErr(iteration)
                         THEN [@ EXCEPT !.pc = "failed", !.outcome = iteration]
                       ELSE IF getsTick /\ ~cached
                         THEN [@ EXCEPT !.pc = "fetchTick",
                                        !.cachedState = [wordPos |-> @.wordPos,
                                                         word |-> @.word,
                                                         tick |-> iteration.step.tickNext]]
                       ELSE QuoteCommit([@ EXCEPT !.tickHits = IF cached THEN @ + 1 ELSE @],
                                        iteration)]
       /\ tickCache' = IF cached
                          THEN tickCacheAfterUse(tickCache, iteration.step.tickNext,
                                                 quotes[c].call.zeroForOne)
                          ELSE tickCache
  /\ UNCHANGED bitmapCache
  /\ QuoteUnchanged

\* the fetch of the tick account returns: the record is stored in the cache
\* and the iteration completes with it
QuoteTickFetched(c) ==
  /\ pc = "concurrent"
  /\ quotes[c].pc = "fetchTick"
  /\ \E stored \in {MapSet(tickCache, quotes[c].cachedState.tick,
                            tickStateAccounts[quotes[c].cachedState.tick])} :
     \E iteration \in {QuoteIteration(c, stored)} :
       /\ quotes' = [quotes EXCEPT ![c] = QuoteCommit(@, iteration)]
       /\ tickCache' = tickCacheAfterUse(stored, quotes[c].cachedState.tick,
                                         quotes[c].call.zeroForOne)
  /\ UNCHANGED bitmapCache
  /\ QuoteUnchanged

NextConcurrent ==
  \/ \E c \in Callers, op \in {"getOutputAmount", "getInputAmount"},
        zeroForOne \in BOOLEAN, quotient \in ConcurrentAmounts :
       QuoteStart(c, op, zeroForOne, quotient, ConcurrentLimit(zeroForOne))
  \/ \E c \in Callers : QuoteBitmapFetched(c)
  \/ \E c \in Callers : QuoteStep(c)
  \/ \E c \in Callers : QuoteTickFetched(c)

SpecConcurrent == InitConcurrent /\ [][NextConcurrent]_vars

(***************************************************************************)
(* TickMath called directly: tm records the last call, and prev the call    *)
(* of getSqrtRatioAtTick before it                                          *)
(***************************************************************************)
MaxTickInput == 3
MaxPriceOffset == 1

\* ticks around 0 and around the two bounds, and numbers that are no integers
TickInputs ==
  {BigInt(t) : t \in (-MaxTickInput)..MaxTickInput}
    \cup {BigInt(MIN_TICK + d) : d \in -1..1}
    \cup {BigInt(MAX_TICK + d) : d \in -1..1}
    \cup {[neg |-> FALSE, m |-> <<>>, half |-> TRUE],
          [neg |-> TRUE, m |-> <<2>>, half |-> TRUE]}

\* prices around the two bounds, around 2^32 and around the prices of the
\* ticks -1 and 1
PriceInputs ==
  {add(base, BigInt(d)) :
     base \in {MIN_SQRT_RATIO, MAX_SQRT_RATIO, Q32,
               add(Q32, BigInt(-214732)), add(Q32, BigInt(214743))},
     d \in (-MaxPriceOffset)..MaxPriceOffset}

InitTickMath ==
  /\ pool = Nil
  /\ tickStateAccounts = <<>>
  /\ version = "pool"
  /\ pc = "tickmath"
  /\ call = Nil
  /\ state = Nil
  /\ lastSavedWordPos = <<>>
  /\ loopCount = 0
  /\ lookups = 0
  /\ swapReturn = Nil
  /\ outcome = Nil
  /\ tm = Nil
  /\ stepComputations = Nil
  /\ bitmapCache = <<>>
  /\ tickCache = <<>>
  /\ quotes = <<>>

\* TickMath.getSqrtRatioAtTick(tick)
GetSqrtRatioAtTick(tick) ==
  /\ pc = "tickmath"
  /\ tm' = [op |-> "getSqrtRatioAtTick", tick |-> tick, price |-> Nil,
            result |-> TickMath_getSqrtRatioAtTick(tick),
            atTick |-> Nil, atNext |-> Nil,
            prev |-> IF ~IsNil(tm) /\ tm.op = "getSqrtRatioAtTick"
                       THEN [tick |-> tm.tick, result |-> tm.result] ELSE Nil]
  /\ UNCHANGED <<pool, tickStateAccounts, version, pc, call, state, lastSavedWordPos,
                 loopCount, lookups, swapReturn, outcome, stepComputations,
                 bitmapCache, tickCache, quotes>>

\* TickMath.getTickAtSqrtRatio(price), then getSqrtRatioAtTick at the tick
\* returned and at the tick above it
GetTickAtSqrtRatio(price) ==
  /\ pc = "tickmath"
  /\ \E tick \in {TickMath_getTickAtSqrtRatio(price)} :
       tm' = [op |-> "getTickAtSqrtRatio", tick |-> Nil, price |-> price,
              result |-> tick,
              atTick |-> TickMath_getSqrtRatioAtTick(tick),
              atNext |-> TickMath_getSqrtRatioAtTick(JSBI_add(tick, ONE)),
              prev |-> Nil]
  /\ UNCHANGED <<pool, tickStateAccounts, version, pc, call, state, lastSavedWordPos,
                 loopCount, lookups, swapReturn, outcome, stepComputations,
                 bitmapCache, tickCache, quotes>>

\* getTickAtSqrtRatio(getSqrtRatioAtTick(tick))
RoundTrip(tick) ==
  /\ pc = "tickmath"
  /\ \E ratio \in {TickMath_getSqrtRatioAtTick(tick)} :
       tm' = [op |-> "roundTrip", tick |-> tick, price |-> ratio,
              result |-> TickMath_getTickAtSqrtRatio(ratio),
              atTick |-> Nil, atNext |-> Nil, prev |-> Nil]
  /\ UNCHANGED <<pool, tickStateAccounts, version, pc, call, state, lastSavedWordPos,
                 loopCount, lookups, swapReturn, outcome, stepComputations,
                 bitmapCache, tickCache, quotes>>

NextTickMath ==
  \/ \E tick \in TickInputs : GetSqrtRatioAtTick(tick)
  \/ \E price \in PriceInputs : GetTickAtSqrtRatio(price)
  \/ \E tick \in TickInputs : RoundTrip(tick)

SpecTickMath == InitTickMath /\ [][NextTickMath]_vars

(***************************************************************************)
(* SwapMath.computeSwapStep called directly: call holds the arguments and   *)
(* outcome the result                                                       *)
(***************************************************************************)
MaxStepAmountExp == 4

\* prices at 2^32 and at the two ticks around it
StepPrices == {add(Q32, BigInt(off)) : off \in {-214732, 0, 214743}}

StepLiquidities == {ZERO, BigInt(10^3), BigInt(10^6), leftShift(ONE, 40)}

\* positive amounts are exact input, negative ones exact output
StepAmounts ==
  {BigInt(10^e) : e \in 0..MaxStepAmountExp}
    \cup {BigInt(-(10^e)) : e \in 0..MaxStepAmountExp}

StepFees == {0, SUPER_STABLE, MEDIUM}

\* the calls explored: one for each choice of the arguments
StepCalls ==
  {[op |-> "computeSwapStep",
    sqrtRatioCurrentX32 |-> current,
    sqrtRatioTargetX32  |-> target,
    liquidity           |-> liquidity,
    amountRemaining     |-> amountRemaining,
    feePips             |-> feePips] :
     current \in StepPrices, target \in StepPrices, liquidity \in StepLiquidities,
     amountRemaining \in StepAmounts, feePips \in StepFees}

InitSwapMath ==
  /\ pool = Nil
  /\ tickStateAccounts = <<>>
  /\ version = "pool"
  /\ pc = "swapmath"
  /\ call \in StepCalls
  /\ state = Nil
  /\ lastSavedWordPos = <<>>
  /\ loopCount = 0
  /\ lookups = 0
  /\ swapReturn = Nil
  /\ outcome = Nil
  /\ tm = Nil
  /\ stepComputations = Nil
  /\ bitmapCache = <<>>
  /\ tickCache = <<>>
  /\ quotes = <<>>

\* SwapMath.computeSwapStep(current, target, liquidity, amountRemaining, feePips)
ComputeSwapStep ==
  /\ pc = "swapmath"
  /\ pc' = "returned"
  /\ outcome' = SwapMath_computeSwapStep(call.sqrtRatioCurrentX32, call.sqrtRatioTargetX32,
                                         call.liquidity, call.amountRemaining,
                                         call.feePips)
  /\ UNCHANGED <<pool, tickStateAccounts, version, call, state, lastSavedWordPos,
                 loopCount, lookups, swapReturn, tm, stepComputations,
                 bitmapCache, tickCache, quotes>>

NextSwapMath == ComputeSwapStep

SpecSwapMath == InitSwapMath /\ [][NextSwapMath]_vars

(***************************************************************************)
(* encodeSqrtRatioX32 called directly.  sqrt is the function of the         *)
(* sdk-core package: the built-in Math.sqrt on doubles below                *)
(* Number.MAX_SAFE_INTEGER, Newton's iteration on JSBI from there on        *)
(***************************************************************************)
TWO == [neg |-> FALSE, m |-> <<2>>]

\* Number.MAX_SAFE_INTEGER = 2^53 - 1
MAX_SAFE_INTEGER == [neg |-> FALSE, m |-> <<32767, 32767, 32767, 255>>]

\* while (x < z) { z = x; x = (value / x + x) / 2 } return z
RECURSIVE sqrtLoop(_, _, _)
sqrtLoop(value, z, x) ==
  IF lessThan(x, z) THEN sqrtLoop(value, x, divide(add(divide(value, x), x), TWO))
  ELSE z

\* the iteration from z = value, x = value / 2 + 1: the integer square root
sqrtNewton(value) == sqrtLoop(value, value, add(divide(value, TWO), ONE))

\* Math.floor(Math.sqrt(n)) for a double n that is an integer below 2^53.
\* Math.sqrt rounds the square root to the nearest double, so between the
\* integers root and root + 1 it returns root + 1 when the square root lies
\* within half a unit in the last place of it: with root in [2^e, 2^(e+1))
\* that unit is 2^(e-52), and the test is n * 2^(2s) > ((root+1) * 2^s - 1)^2
\* for s = 53 - e
MathFloorSqrt(n) ==
  LET root == sqrtNewton(n)
      s    == 54 - NBitLen(root.m)
      edge == subtract(leftShift(add(root, ONE), s), ONE)
  IN  IF equal(multiply(root, root), n) THEN root
      ELSE IF greaterThan(leftShift(n, 2 * s), multiply(edge, edge)) THEN add(root, ONE)
      ELSE root

sqrt(value) ==
  IF ~greaterThanOrEqual(value, ZERO) THEN Throw("NEGATIVE")
  ELSE IF lessThan(value, MAX_SAFE_INTEGER) THEN MathFloorSqrt(toNumber(value))
  ELSE sqrtNewton(value)

encodeSqrtRatioX32(amount1, amount0) ==
  LET numerator   == leftShift(amount1, 64)
      denominator == amount0
      ratioX64    == divide(numerator, denominator)
  IN  IF IsErr(ratioX64) THEN ratioX64 ELSE sqrt(ratioX64)

MaxEncodeAmountExp == 6

\* amounts: 0, powers of ten, the amounts of the tests, 2^52 + 2^27 and 2^64
EncodeAmounts ==
  {ZERO, BigInt(111), BigInt(333), add(leftShift(ONE, 52), leftShift(ONE, 27)),
   leftShift(ONE, 64)}
    \cup {BigInt(10^e) : e \in 0..MaxEncodeAmountExp}

EncodeCalls ==
  {[op |-> "encodeSqrtRatioX32", amount1 |-> amount1, amount0 |-> amount0] :
     amount1 \in EncodeAmounts, amount0 \in EncodeAmounts}

InitEncode ==
  /\ pool = Nil
  /\ tickStateAccounts = <<>>
  /\ version = "pool"
  /\ pc = "encode"
  /\ call \in EncodeCalls
  /\ state = Nil
  /\ lastSavedWordPos = <<>>
  /\ loopCount = 0
  /\ lookups = 0
  /\ swapReturn = Nil
  /\ outcome = Nil
  /\ tm = Nil
  /\ stepComputations = Nil
  /\ bitmapCache = <<>>
  /\ tickCache = <<>>
  /\ quotes = <<>>

\* encodeSqrtRatioX32(amount1, amount0)
EncodeSqrtRatioX32 ==
  /\ pc = "encode"
  /\ pc' = "returned"
  /\ outcome' = encodeSqrtRatioX32(call.amount1, call.amount0)
  /\ UNCHANGED <<pool, tickStateAccounts, version, call, state, lastSavedWordPos,
                 loopCount, lookups, swapReturn, tm, stepComputations,
                 bitmapCache, tickCache, quotes>>

NextEncode == EncodeSqrtRatioX32

SpecEncode == InitEncode /\ [][NextEncode]_vars

(***************************************************************************)
(* The libraries called directly: the state before a call and what is left *)
(* alone by it                                                             *)
(***************************************************************************)
InitDirect(start, calls) ==
  /\ pool = Nil
  /\ tickStateAccounts = <<>>
  /\ version = "pool"
  /\ pc = start
  /\ call \in calls
  /\ state = Nil
  /\ lastSavedWordPos = <<>>
  /\ loopCount = 0
  /\ lookups = 0
  /\ swapReturn = Nil
  /\ outcome = Nil
  /\ tm = Nil
  /\ stepComputations = Nil
  /\ bitmapCache = <<>>
  /\ tickCache = <<>>
  /\ quotes = <<>>

DirectUnchanged ==
  UNCHANGED <<pool, tickStateAccounts, version, call, state, lastSavedWordPos,
              loopCount, lookups, swapReturn, tm, stepComputations,
              bitmapCache, tickCache, quotes>>

(***************************************************************************)
(* The position of a lookup in the two providers                           *)
(***************************************************************************)
MaxLookupTick == 520

LookupTicks ==
  (-MaxLookupTick)..MaxLookupTick
    \cup {MIN_TICK, MIN_TICK + 1, -51201, -51200, -15360, 15359, 51200, MAX_TICK}

LookupCalls ==
  [tick : LookupTicks, lte : BOOLEAN, tickSpacing : {TICK_SPACINGS(SUPER_STABLE),
                                                     TICK_SPACINGS(LOW),
                                                     TICK_SPACINGS(MEDIUM),
                                                     TICK_SPACINGS(HIGH)}]

InitLookup == InitDirect("lookup", LookupCalls)

\* the head of nextInitializedTickWithinOneWord in the provider with
\* Math.floor and in the providers with JSBI.divide
NextInitializedTickPosition ==
  /\ pc = "lookup"
  /\ pc' = "returned"
  /\ outcome' = [floor  |-> lookupPosition(compressedByFloor(call.tick, call.tickSpacing),
                                           call.lte),
                 divide |-> lookupPosition(compressedByDivide(call.tick, call.tickSpacing),
                                           call.lte)]
  /\ DirectUnchanged

NextLookup == NextInitializedTickPosition

SpecLookup == InitLookup /\ [][NextLookup]_vars

(***************************************************************************)
(* SqrtPriceMath and LiquidityMath called directly                          *)
(***************************************************************************)
MaxMathAmountExp == 7

MathPrices == {ZERO, BigInt(3), subtract(Q32, BigInt(214732)), Q32, add(Q32, BigInt(214743))}

MathLiquidities == {ZERO, BigInt(10^3), BigInt(10^6), leftShift(ONE, 40)}

MathAmounts ==
  {ZERO, ONE, BigInt(10^3), BigInt(10^MaxMathAmountExp), Q32, leftShift(ONE, 62),
   leftShift(ONE, 100)}

MathDeltas == {BigInt(sign * 10^e) : sign \in {-1, 1}, e \in {0, 3, MaxMathAmountExp}}

\* operands of the 128-bit intermediates
MathWords ==
  {ONE, BigInt(3), Q32, Q64, leftShift(ONE, 100), subtract(leftShift(ONE, 128), ONE)}

MathCalls ==
  [op : {"getNextSqrtPriceFromInput", "getNextSqrtPriceFromOutput"},
   sqrtPX32 : MathPrices, liquidity : MathLiquidities, amount : MathAmounts,
   zeroForOne : BOOLEAN]
  \cup [op : {"getAmount0Delta", "getAmount1Delta"},
        sqrtRatioAX32 : MathPrices, sqrtRatioBX32 : MathPrices,
        liquidity : MathLiquidities, roundUp : BOOLEAN]
  \cup [op : {"addDelta"}, x : MathLiquidities, y : MathDeltas]
  \cup [op : {"multiplyIn128", "addIn128"}, x : MathWords, y : MathWords]

InitMath == InitDirect("math", MathCalls)

GetNextSqrtPriceFromInput ==
  /\ pc = "math"
  /\ call.op = "getNextSqrtPriceFromInput"
  /\ pc' = "returned"
  /\ outcome' = SqrtPriceMath_getNextSqrtPriceFromInput(call.sqrtPX32, call.liquidity,
                 call.amount, call.zeroForOne)
  /\ DirectUnchanged

GetNextSqrtPriceFromOutput ==
  /\ pc = "math"
  /\ call.op = "getNextSqrtPriceFromOutput"
  /\ pc' = "returned"
  /\ outcome' = SqrtPriceMath_getNextSqrtPriceFromOutput(call.sqrtPX32, call.liquidity,
                 call.amount, call.zeroForOne)
  /\ DirectUnchanged

\* a call, the call with the two prices exchanged and the call with the
\* other rounding
GetAmount0Delta ==
  /\ pc = "math"
  /\ call.op = "getAmount0Delta"
  /\ pc' = "returned"
  /\ outcome' = [val |-> SqrtPriceMath_getAmount0Delta(call.sqrtRatioAX32, call.sqrtRatioBX32,
                 call.liquidity, call.roundUp),
                 exchanged |-> SqrtPriceMath_getAmount0Delta(call.sqrtRatioBX32,
                 call.sqrtRatioAX32,
                 call.liquidity, call.roundUp),
                 opposite |-> SqrtPriceMath_getAmount0Delta(call.sqrtRatioAX32,
                 call.sqrtRatioBX32,
                 call.liquidity, ~call.roundUp)]
  /\ DirectUnchanged

GetAmount1Delta ==
  /\ pc = "math"
  /\ call.op = "getAmount1Delta"
  /\ pc' = "returned"
  /\ outcome' = [val |-> SqrtPriceMath_getAmount1Delta(call.sqrtRatioAX32, call.sqrtRatioBX32,
                 call.liquidity, call.roundUp),
                 exchanged |-> SqrtPriceMath_getAmount1Delta(call.sqrtRatioBX32,
                 call.sqrtRatioAX32,
                 call.liquidity, call.roundUp),
                 opposite |-> SqrtPriceMath_getAmount1Delta(call.sqrtRatioAX32,
                 call.sqrtRatioBX32,
                 call.liquidity, ~call.roundUp)]
  /\ DirectUnchanged

AddDelta ==
  /\ pc = "math"
  /\ call.op = "addDelta"
  /\ pc' = "returned"
  /\ outcome' = LiquidityMath_addDelta(call.x, call.y)
  /\ DirectUnchanged

MultiplyIn128 ==
  /\ pc = "math"
  /\ call.op = "multiplyIn128"
  /\ pc' = "returned"
  /\ outcome' = multiplyIn128(call.x, call.y)
  /\ DirectUnchanged

AddIn128 ==
  /\ pc = "math"
  /\ call.op = "addIn128"
  /\ pc' = "returned"
  /\ outcome' = addIn128(call.x, call.y)
  /\ DirectUnchanged

NextMath ==
  \/ GetNextSqrtPriceFromInput
  \/ GetNextSqrtPriceFromOutput
  \/ GetAmount0Delta
  \/ GetAmount1Delta
  \/ AddDelta
  \/ MultiplyIn128
  \/ AddIn128

SpecMath == InitMath /\ [][NextMath]_vars

(***************************************************************************)
(* The caching directory called directly: callers look up bitmap words and *)
(* ticks and load the cache eagerly, over one remote store.  A call runs   *)
(* without interruption up to the fetch it awaits; a fetch returns the     *)
(* account or fails, whether or not the account exists                     *)
(***************************************************************************)
MaxFetches == 4

\* a word with initialized ticks and one without an account
CacheWords == {0, 1}

\* a tick of the store and one the store does not hold
CacheTicks == {0, 3}

CacheSpacing == TICK_SPACINGS(SUPER_STABLE)

IdleLookup ==
  [pc |-> "idle", op |-> "", key |-> 0, after |-> FALSE, fetched |-> FALSE,
   answer |-> Nil]

\* a call that has sent a fetch and awaits it
AwaitingLookup(op, key, after, awaits) ==
  [pc |-> awaits, op |-> op, key |-> key, after |-> after, fetched |-> TRUE,
   answer |-> Nil]

\* a call that has returned answer
DoneLookup(q, answer) == [q EXCEPT !.pc = "done", !.answer = answer]

\* the answers of the lookups so far: for each word and each tick the answer
\* of the first lookup that completed, and the keys stored again since then
NoAnswers == [bitmaps |-> <<>>, ticks |-> <<>>, stored |-> {}]

RecordFirst(answers, key, answer) ==
  IF key \in DOMAIN answers THEN answers ELSE MapSet(answers, key, answer)

InitCache ==
  /\ pool = Nil
  /\ tickStateAccounts \in TickStores \ {<<>>}
  /\ version = "pool"
  /\ pc = "cache"
  /\ call = Nil
  /\ state = Nil
  /\ lastSavedWordPos = <<>>
  /\ loopCount = 0
  /\ lookups = 0
  /\ swapReturn = Nil
  /\ outcome = NoAnswers
  /\ tm = Nil
  /\ stepComputations = Nil
  /\ bitmapCache = <<>>
  /\ tickCache = <<>>
  /\ quotes = [c \in Callers |-> IdleLookup]

CacheUnchanged ==
  UNCHANGED <<pool, tickStateAccounts, version, pc, call, state, lastSavedWordPos,
              loopCount, swapReturn, tm, stepComputations>>

CallerFree(c) == quotes[c].pc \in {"idle", "done", "failed"}

getBitmapAddress(wordPos) == [seed |-> "b", index |-> u16ToSeed(wordPos)]

\* getBitmap(wordPos) up to its await: the entry of the cache, or the fetch
\* of the bitmap account is sent
GetBitmap(c, wordPos) ==
  /\ pc = "cache"
  /\ CallerFree(c)
  /\ IF MapHas(bitmapCache, wordPos)
       THEN /\ quotes' = [quotes EXCEPT ![c] =
                            [pc |-> "done", op |-> "getBitmap", key |-> wordPos,
                             after |-> wordPos \in DOMAIN outcome.bitmaps,
                             fetched |-> FALSE, answer |-> bitmapCache[wordPos]]]
            /\ outcome' = [outcome EXCEPT
                             !.bitmaps = RecordFirst(@, wordPos, bitmapCache[wordPos])]
            /\ lookups' = lookups
       ELSE /\ lookups < MaxFetches
            /\ quotes' = [quotes EXCEPT ![c] =
                            AwaitingLookup("getBitmap", wordPos,
                                           wordPos \in DOMAIN outcome.bitmaps,
                                           "fetchBitmap")]
            /\ outcome' = outcome
            /\ lookups' = lookups + 1
  /\ UNCHANGED <<bitmapCache, tickCache>>
  /\ CacheUnchanged

\* the fetch of getBitmap returns (ok) or fails: the word, all zero after a
\* failure, is stored with the address and the entry is returned
BitmapFetched(c, ok) ==
  /\ pc = "cache"
  /\ quotes[c].pc = "fetchBitmap"
  /\ \E wordPos \in {quotes[c].key} :
     \E account \in {IF ok THEN fetchTickBitmapState(tickStateAccounts, wordPos,
                                                       CacheSpacing)
                      ELSE Throw("failed to get info about account")} :
     \E entry \in {[address |-> getBitmapAddress(wordPos),
                    word |-> IF IsErr(account) THEN {} ELSE account.word]} :
       /\ bitmapCache' = MapSet(bitmapCache, wordPos, entry)
       /\ quotes' = [quotes EXCEPT ![c] = DoneLookup(@, entry)]
       /\ outcome' = [outcome EXCEPT
                        !.bitmaps = RecordFirst(@, wordPos, entry),
                        !.stored = IF wordPos \in DOMAIN outcome.bitmaps
                                     THEN @ \cup {<<"b", wordPos>>} ELSE @]
  /\ UNCHANGED <<tickCache, lookups>>
  /\ CacheUnchanged

\* getTick(tick) up to its await: the record of the cache, or the fetch of
\* the tick account is sent
GetTick(c, tick) ==
  /\ pc = "cache"
  /\ CallerFree(c)
  /\ IF MapHas(tickCache, tick)
       THEN /\ quotes' = [quotes EXCEPT ![c] =
                            [pc |-> "done", op |-> "getTick", key |-> tick,
                             after |-> tick \in DOMAIN outcome.ticks,
                             fetched |-> FALSE,
                             answer |-> [liquidityNet |-> tickCache[tick].liquidityNet]]]
            /\ outcome' = [outcome EXCEPT
                             !.ticks = RecordFirst(@, tick,
                                         [liquidityNet |-> tickCache[tick].liquidityNet])]
            /\ lookups' = lookups
       ELSE /\ lookups < MaxFetches
            /\ quotes' = [quotes EXCEPT ![c] =
                            AwaitingLookup("getTick", tick, tick \in DOMAIN outcome.ticks,
                                           "fetchTick")]
            /\ outcome' = outcome
            /\ lookups' = lookups + 1
  /\ UNCHANGED <<bitmapCache, tickCache>>
  /\ CacheUnchanged

\* the fetch of getTick returns (ok) or fails: the record is stored and
\* returned, or getTick throws and stores nothing
TickFetched(c, ok) ==
  /\ pc = "cache"
  /\ quotes[c].pc = "fetchTick"
  /\ \E tick \in {quotes[c].key} :
     \E account \in {IF ok THEN getTick("solana", tickStateAccounts, tick)
                      ELSE Throw("failed to get info about account")} :
       IF IsErr(account)
         THEN /\ quotes' = [quotes EXCEPT ![c] = [@ EXCEPT !.pc = "failed",
                                                            !.answer = account]]
              /\ UNCHANGED <<tickCache, outcome>>
         ELSE /\ tickCache' = MapSet(tickCache, tick,
                                     [address |-> getTickAddress("solana", tick),
                                      liquidityNet |-> account.liquidityNet])
              /\ quotes' = [quotes EXCEPT ![c] =
                              DoneLookup(@, [liquidityNet |-> account.liquidityNet])]
              /\ outcome' = [outcome EXCEPT
                               !.ticks = RecordFirst(@, tick,
                                           [liquidityNet |-> account.liquidityNet]),
                               !.stored = IF tick \in DOMAIN outcome.ticks
                                            THEN @ \cup {<<"t", tick>>} ELSE @]
  /\ UNCHANGED <<bitmapCache, lookups>>
  /\ CacheUnchanged

\* the words eagerLoadCache fetches: ten on each side of the word of
\* tickCurrent, the last one left out, within the words of MIN_TICK and MAX_TICK
EagerWords(tickCurrent, spacing) ==
  LET wordPos == tickPosition(ToInt(toNumber(divide(BigInt(tickCurrent),
                                                         BigInt(spacing))))).wordPos
      lowest  == tickPosition(MIN_TICK \div spacing).wordPos
      highest == tickPosition(MAX_TICK \div spacing).wordPos
      minWord == IF wordPos - 10 > lowest THEN wordPos - 10 ELSE lowest
      maxWord == IF wordPos + 10 < highest THEN wordPos + 10 ELSE highest
  IN  minWord..(maxWord - 1)

\* the ticks of the set bits of the words
EagerTicks(accounts, words, spacing) ==
  UNION {{(w * 256 + b) * spacing : b \in generateBitmapWord(accounts, w, spacing)} :
           w \in words}

\* eagerLoadCache(tickCurrent, tickSpacing) up to the fetch of the bitmaps
EagerLoadCache(c, tickCurrent) ==
  /\ pc = "cache"
  /\ CallerFree(c)
  /\ lookups + 1 < MaxFetches
  /\ quotes' = [quotes EXCEPT ![c] =
                  AwaitingLookup("eagerLoadCache", tickCurrent, FALSE, "fetchBitmaps")]
  /\ lookups' = lookups + 1
  /\ UNCHANGED <<bitmapCache, tickCache, outcome>>
  /\ CacheUnchanged

\* the bitmaps of eagerLoadCache are fetched: every word of the window is
\* stored, all zero for a missing account, and the ticks of the set bits are
\* asked for; a failure is caught and ends the call
EagerBitmapsFetched(c, ok) ==
  /\ pc = "cache"
  /\ quotes[c].pc = "fetchBitmaps"
  /\ IF ok
       THEN \E words \in {EagerWords(quotes[c].key, CacheSpacing)} :
              /\ bitmapCache' =
                   [w \in DOMAIN bitmapCache \cup words |->
                      IF w \in words
                        THEN [address |-> getBitmapAddress(w),
                              word |-> generateBitmapWord(tickStateAccounts, w,
                                                          CacheSpacing)]
                        ELSE bitmapCache[w]]
              /\ outcome' = [outcome EXCEPT
                               !.stored = @ \cup {<<"b", w>> :
                                                    w \in words \cap DOMAIN outcome.bitmaps}]
              /\ quotes' = [quotes EXCEPT ![c].pc = "fetchTicks"]
              /\ lookups' = lookups + 1
       ELSE /\ quotes' = [quotes EXCEPT ![c] = DoneLookup(@, Nil)]
            /\ UNCHANGED <<bitmapCache, outcome, lookups>>
  /\ UNCHANGED tickCache
  /\ CacheUnchanged

\* the ticks of eagerLoadCache are fetched: every one is stored; a failure
\* is caught
EagerTicksFetched(c, ok) ==
  /\ pc = "cache"
  /\ quotes[c].pc = "fetchTicks"
  /\ IF ok
       THEN \E ticks \in {EagerTicks(tickStateAccounts,
                                     EagerWords(quotes[c].key, CacheSpacing),
                                     CacheSpacing)} :
              /\ tickCache' =
                   [t \in DOMAIN tickCache \cup ticks |->
                      IF t \in ticks
                        THEN [address |-> getTickAddress("solana", t),
                              liquidityNet |-> BigInt(tickStateAccounts[t])]
                        ELSE tickCache[t]]
              /\ outcome' = [outcome EXCEPT
                               !.stored = @ \cup {<<"t", t>> :
                                                    t \in ticks \cap DOMAIN outcome.ticks}]
       ELSE UNCHANGED <<tickCache, outcome>>
  /\ quotes' = [quotes EXCEPT ![c] = DoneLookup(@, Nil)]
  /\ UNCHANGED <<bitmapCache, lookups>>
  /\ CacheUnchanged

NextCache ==
  \/ \E c \in Callers, wordPos \in CacheWords : GetBitmap(c, wordPos)
  \/ \E c \in Callers, ok \in BOOLEAN : BitmapFetched(c, ok)
  \/ \E c \in Callers, tick \in CacheTicks : GetTick(c, tick)
  \/ \E c \in Callers, ok \in BOOLEAN : TickFetched(c, ok)
  \/ \E c \in Callers, tickCurrent \in CacheTicks : EagerLoadCache(c, tickCurrent)
  \/ \E c \in Callers, ok \in BOOLEAN : EagerBitmapsFetched(c, ok)
  \/ \E c \in Callers, ok \in BOOLEAN : EagerTicksFetched(c, ok)

SpecCache == InitCache /\ [][NextCache]_vars

(***************************************************************************)
(* Properties of TickMath, over SpecTickMath                               *)
(***************************************************************************)
\* the last call was op
TmIs(op) == ~IsNil(tm) /\ tm.op = op

\* tick is an integer in [MIN_TICK, MAX_TICK]
ValidTick(tick) ==
  /\ "half" \notin DOMAIN tick
  /\ Cmp(tick, BigInt(MIN_TICK)) >= 0
  /\ Cmp(tick, BigInt(MAX_TICK)) <= 0

\* MIN_SQRT_RATIO <= price < MAX_SQRT_RATIO
ValidPrice(price) ==
  Cmp(price, MIN_SQRT_RATIO) >= 0 /\ Cmp(price, MAX_SQRT_RATIO) < 0

\* C8: round trip: for every valid tick,
\* getTickAtSqrtRatio(getSqrtRatioAtTick(tick)) returns tick
C8_RoundTrip ==
  TmIs("roundTrip") /\ ValidTick(tm.tick) => tm.result = tm.tick

\* C9: for every price p with MIN_SQRT_RATIO <= p < MAX_SQRT_RATIO the tick t
\* that getTickAtSqrtRatio(p) returns has
\* getSqrtRatioAtTick(t) <= p < getSqrtRatioAtTick(t + 1)
C9_TickBrackets ==
  TmIs("getTickAtSqrtRatio") /\ ValidPrice(tm.price) =>
    /\ ~IsErr(tm.result) /\ ~IsErr(tm.atTick) /\ ~IsErr(tm.atNext)
    /\ Cmp(tm.atTick, tm.price) <= 0
    /\ Cmp(tm.price, tm.atNext) < 0

\* C10: getSqrtRatioAtTick is strictly increasing: of two calls with valid
\* ticks t1 < t2 the second returns the greater price
C10_StrictlyIncreasing ==
  TmIs("getSqrtRatioAtTick") /\ ~IsNil(tm.prev)
    /\ ValidTick(tm.prev.tick) /\ ValidTick(tm.tick)
    /\ Cmp(tm.prev.tick, tm.tick) < 0 =>
      /\ ~IsErr(tm.prev.result) /\ ~IsErr(tm.result)
      /\ Cmp(tm.prev.result, tm.result) < 0

\* C11: the boundary values: getSqrtRatioAtTick(0) = 2^32,
\* getSqrtRatioAtTick(MIN_TICK) = MIN_SQRT_RATIO and
\* getSqrtRatioAtTick(MAX_TICK) = MAX_SQRT_RATIO
C11_BoundaryValues ==
  TmIs("getSqrtRatioAtTick") =>
    /\ tm.tick = BigInt(0) => tm.result = Q32
    /\ tm.tick = BigInt(MIN_TICK) => tm.result = MIN_SQRT_RATIO
    /\ tm.tick = BigInt(MAX_TICK) => tm.result = MAX_SQRT_RATIO

\* C12: getSqrtRatioAtTick throws TICK for every tick outside
\* [MIN_TICK, MAX_TICK] and for every number that is no integer, and
\* getTickAtSqrtRatio throws SQRT_RATIO for every price outside
\* [MIN_SQRT_RATIO, MAX_SQRT_RATIO)
C12_DomainErrors ==
  /\ (TmIs("getSqrtRatioAtTick") \/ TmIs("roundTrip")) /\ ~ValidTick(tm.tick) =>
       (IF TmIs("roundTrip") THEN tm.price ELSE tm.result) = Throw("TICK")
  /\ TmIs("getSqrtRatioAtTick") /\ ~IsNil(tm.prev) /\ ~ValidTick(tm.prev.tick) =>
       tm.prev.result = Throw("TICK")
  /\ TmIs("getTickAtSqrtRatio") /\ ~ValidPrice(tm.price) =>
       tm.result = Throw("SQRT_RATIO")

\* C12 happens: a call with a number that is no integer after a call with a
\* tick beyond MAX_TICK, both refused
C12_Witness ==
  /\ TmIs("getSqrtRatioAtTick") /\ ~IsNil(tm.prev)
  /\ "half" \in DOMAIN tm.tick /\ IsErr(tm.result)
  /\ Cmp(tm.prev.tick, BigInt(MAX_TICK)) > 0 /\ IsErr(tm.prev.result)

(***************************************************************************)
(* Properties of the quotes and of the directory, over Spec                *)
(***************************************************************************)
\* a quote (getOutputAmount or getInputAmount) has reached swap
QuoteStarted == ~IsNil(call) /\ call.op \in {"getOutputAmount", "getInputAmount"}

\* the limit lies strictly between the pool's price and the global bound in
\* the direction of the trade
LimitValid ==
  IF call.zeroForOne
    THEN Cmp(MIN_SQRT_RATIO, call.sqrtPriceLimitX32) < 0
         /\ Cmp(call.sqrtPriceLimitX32, pool.sqrtRatioX32) < 0
    ELSE Cmp(pool.sqrtRatioX32, call.sqrtPriceLimitX32) < 0
         /\ Cmp(call.sqrtPriceLimitX32, MAX_SQRT_RATIO) < 0

\* C3: for every swap that returns, the final price has not passed the
\* limit: not below it when zeroForOne, not above it otherwise
C3_LimitNotPassed ==
  ~IsNil(swapReturn) =>
    IF call.zeroForOne
      THEN Cmp(swapReturn.sqrtRatioX32, call.sqrtPriceLimitX32) >= 0
      ELSE Cmp(swapReturn.sqrtRatioX32, call.sqrtPriceLimitX32) <= 0

\* C3 happens: a swap whose next tick lay beyond the limit returned with the
\* price on the limit
C3_Witness ==
  /\ ~IsNil(swapReturn) /\ lookups > 0 /\ state.priceIsLimit
  /\ swapReturn.sqrtRatioX32 = call.sqrtPriceLimitX32

\* C4: no step of getOutputAmount or getInputAmount changes the pool it is
\* called on: the post-trade state is in the pool returned
C4_PoolNotMutated == [][pool' = pool]_vars

\* C4 happens: a quote returned a pool that differs from the pool it was
\* called on, which is as it was
C4_Witness ==
  /\ pc = "returned" /\ outcome.pool # pool
  /\ outcome.pool.sqrtRatioX32 # pool.sqrtRatioX32

\* C5: for every swap whose loop completes, building the updated pool does
\* not fail with PRICE_BOUNDS or TICK
C5_UpdatedPoolValid ==
  ~IsNil(swapReturn) => ~(IsErr(outcome) /\ outcome.err \in {"PRICE_BOUNDS", "TICK"})

\* C6: a swap is rejected before any lookup and before the scratch state
\* exists when the amount is 0 or the limit is not valid
C6_RejectedBeforeLookup ==
  QuoteStarted /\ (call.amountSpecified = ZERO \/ ~LimitValid) =>
    pc = "failed" /\ lookups = 0 /\ IsNil(state)

\* C7: with no tick data provider every operation of the directory throws,
\* and every quote with a non-zero amount and a valid limit throws the
\* error of the provider
C7_NoProviderFails ==
  pool.tickDataProvider = "none" =>
    /\ pc = "directory" => IsErr(outcome)
    /\ QuoteStarted /\ pc # "loop" /\ call.amountSpecified # ZERO /\ LimitValid =>
         pc = "failed" /\ outcome = Throw("No tick data provider was given")

\* C7 amended: the same, for the pools whose tick lies strictly between
\* MIN_TICK and MAX_TICK
C7_NoProviderFailsInsideTickBounds ==
  pool.tickDataProvider = "none" =>
    /\ pc = "directory" => IsErr(outcome)
    /\ QuoteStarted /\ pc # "loop" /\ call.amountSpecified # ZERO /\ LimitValid
         /\ Cmp(BigInt(MIN_TICK), pool.tickCurrent) < 0
         /\ Cmp(pool.tickCurrent, BigInt(MAX_TICK)) < 0 =>
         pc = "failed" /\ outcome = Throw("No tick data provider was given")

\* C7 happens: a quote on a pool without provider failed at its first lookup
C7_Witness ==
  /\ pool.tickDataProvider = "none" /\ QuoteStarted /\ lookups = 1
  /\ pc = "failed" /\ IsErr(outcome)

\* C16: a query on a bitmap word that is not in storage does not fail: the
\* result is not initialized and the tick is the one of bit 0 of the word
\* when lte and of bit 255 otherwise
C16_MissingWordIsZero ==
  /\ pc = "directory" /\ call.op = "nextInitializedTickWithinOneWord"
  /\ pool.tickDataProvider = "solana"
  /\ IsErr(fetchTickBitmapState(
        tickStateAccounts,
        tickPosition((call.tick \div call.tickSpacing)
                       + (IF call.lte THEN 0 ELSE 1)).wordPos,
        call.tickSpacing))
  => /\ ~IsErr(outcome)
     /\ outcome.initialized = FALSE
     /\ outcome.tickNext = (outcome.wordPos * 256 + (IF call.lte THEN 0 ELSE 255))
                             * call.tickSpacing

\* C16 happens: a query with tick spacing 60 on a word without account, in
\* a store that has other words
C16_Witness ==
  /\ pc = "directory" /\ call.op = "nextInitializedTickWithinOneWord"
  /\ pool.tickDataProvider = "solana" /\ tickStateAccounts # <<>>
  /\ call.tickSpacing = TICK_SPACINGS(MEDIUM) /\ call.lte
  /\ ~IsErr(outcome) /\ ~outcome.initialized /\ outcome.wordPos = -1

(***************************************************************************)
(* Properties of SwapMath.computeSwapStep, over SpecSwapMath               *)
(***************************************************************************)
StepDone ==
  pc = "returned" /\ call.op = "computeSwapStep" /\ ~IsErr(outcome)

StepExactIn == greaterThanOrEqual(call.amountRemaining, ZERO)

StepReachedTarget == equal(outcome.sqrtRatioNextX32, call.sqrtRatioTargetX32)

\* C13 as stated: with feePips = 0 every step that computeSwapStep returns
\* has feeAmount = 0, whatever the direction, the mode, the prices, the
\* liquidity and the amount, and whether or not the target price is reached
C13_ZeroFeeIsFree ==
  (StepDone /\ call.feePips = 0) => equal(outcome.feeAmount, ZERO)

\* C13 amended: with feePips = 0 the fee is 0 for every exact-output step and
\* for every exact-input step that reaches the target price; an exact-input
\* step that stops before the target takes what is left of the amount as the
\* fee, so the fee is not negative and amountIn + feeAmount = amountRemaining
C13_ZeroFeeOnlyRemainder ==
  (StepDone /\ call.feePips = 0) =>
    IF StepExactIn /\ ~StepReachedTarget
      THEN /\ greaterThanOrEqual(outcome.feeAmount, ZERO)
           /\ equal(add(outcome.amountIn, outcome.feeAmount), call.amountRemaining)
      ELSE equal(outcome.feeAmount, ZERO)

\* a step without fee that reaches the target and leaves part of the input
C13_Witness ==
  /\ StepDone /\ call.feePips = 0 /\ StepExactIn /\ StepReachedTarget
  /\ greaterThan(outcome.amountIn, ZERO)
  /\ greaterThan(call.amountRemaining, outcome.amountIn)
  /\ equal(outcome.feeAmount, ZERO)


(***************************************************************************)
(* Properties of the iterations of swap's loop, over Spec                  *)
(***************************************************************************)
\* an iteration of the loop has completed; state is the state it left
StepTaken == ~IsNil(stepComputations)

LastStep == stepComputations.step

\* the liquidityNet stored at the tick, with the sign of the direction
SignedLiquidityNet(tick) ==
  IF call.zeroForOne THEN BigInt(-(tickStateAccounts[tick]))
  ELSE BigInt(tickStateAccounts[tick])

\* C19: after an iteration whose price is the price of tickNext, the tick is
\* tickNext - 1 (zeroForOne) or tickNext; when tickNext is initialized its
\* liquidityNet was fetched and applied with the sign of the direction and the
\* tick account was appended to accounts; when it is not, liquidity and
\* accounts are as they were and no tick was fetched
C19_TickTransition ==
  (StepTaken /\ LastStep.endsOnTickNext) =>
    /\ equal(state.tick, BigInt(IF call.zeroForOne THEN LastStep.tickNext - 1
                                ELSE LastStep.tickNext))
    /\ IF LastStep.initialized
         THEN /\ LastStep.tickFetched
              /\ LastStep.tickNext \in DOMAIN tickStateAccounts
              /\ equal(state.liquidity,
                       add(LastStep.liquidityBefore, SignedLiquidityNet(LastStep.tickNext)))
              /\ state.accounts =
                   Append(LastStep.accountsBefore,
                          SwapAccount(getTickAddress(pool.tickDataProvider,
                                                     LastStep.tickNext), TRUE))
         ELSE /\ ~LastStep.tickFetched
              /\ equal(state.liquidity, LastStep.liquidityBefore)
              /\ state.accounts = LastStep.accountsBefore

\* a downward step onto an initialized tick
C19_Witness ==
  /\ StepTaken /\ LastStep.endsOnTickNext /\ LastStep.initialized /\ call.zeroForOne
  /\ ~equal(state.liquidity, LastStep.liquidityBefore)

\* C20: after an iteration whose price is not the price of tickNext, the tick
\* was recomputed exactly when the price differs from the price the step
\* started at, and a step that left the price where it was left the tick
C20_RecomputedIffMoved ==
  (StepTaken /\ ~LastStep.endsOnTickNext) =>
    /\ LastStep.tickRecomputed <=> ~equal(state.sqrtPriceX32, LastStep.sqrtPriceStartX32)
    /\ equal(state.sqrtPriceX32, LastStep.sqrtPriceStartX32)
         => equal(state.tick, LastStep.tickBefore)

\* C14: when the loop of a swap is over, the whole amount is used and no
\* iteration ended on the price of its tickNext, the tick is the pool's tick
\* and the price has not moved against the direction of the trade
C14_AbsorbedInRange ==
  (/\ StepTaken /\ stepComputations.ticksReached = 0
   /\ ~swapLoopCondition(version, state)
   /\ equal(state.amountSpecifiedRemaining, ZERO)) =>
    /\ equal(state.tick, pool.tickCurrent)
    /\ IF call.zeroForOne
         THEN lessThanOrEqual(state.sqrtPriceX32, pool.sqrtRatioX32)
         ELSE greaterThanOrEqual(state.sqrtPriceX32, pool.sqrtRatioX32)


(***************************************************************************)
(* Conservation, over Spec                                                 *)
(***************************************************************************)
\* what the iterations so far have taken from the trader and given to them
SwapInput == subtract(call.amountSpecified, state.amountSpecifiedRemaining)

SwapOutput == unaryMinus(state.amountCalculated)

\* the pool's price of token0 in token1 is (sqrtRatioX32 / 2^32)^2
PoolPriceX64 == multiply(pool.sqrtRatioX32, pool.sqrtRatioX32)

EncodeDone ==
  pc = "returned" /\ call.op = "encodeSqrtRatioX32" /\ ~IsErr(outcome)

EncodeIs(amount1, amount0) ==
  equal(call.amount1, BigInt(amount1)) /\ equal(call.amount0, BigInt(amount0))

QuoteEnded(c) == pc = "concurrent" /\ quotes[c].pc \in {"returned", "failed"}

\* the end of the call of c when it runs alone on the remote data
QuoteAlone(c) ==
  CHOOSE result \in
    { quoteResult(pool, quotes[c].call.op, returned) :
        returned \in {swap(pool, tickStateAccounts, quotes[c].call.zeroForOne,
                           quotes[c].call.amountSpecified,
                           quotes[c].call.sqrtPriceLimitX32)} } : TRUE

SwapAccounts == state.accounts

BitmapAccount(wordPos) ==
  SwapAccount([seed |-> "b", index |-> u16ToSeed(wordPos)], FALSE)

TickAccount(tick) ==
  SwapAccount([seed |-> "t", index |-> u32ToSeed(tick)], TRUE)

\* C21: the accounts of a swap are distinct; the bitmap word of the last
\* lookup is among them, and a tick crossed in the last iteration is the
\* last of them, after the bitmap word that contains it
C21_AccountsDistinct ==
  StepTaken =>
    /\ \A i, j \in 1..Len(SwapAccounts) :
         i # j => SwapAccounts[i].pubkey # SwapAccounts[j].pubkey
    /\ \E i \in 1..Len(SwapAccounts) :
         SwapAccounts[i] = BitmapAccount(lastSavedWordPos[1])
    /\ LastStep.tickFetched =>
         /\ SwapAccounts[Len(SwapAccounts)] = TickAccount(LastStep.tickNext)
         /\ \E i \in 1..(Len(SwapAccounts) - 1) :
              SwapAccounts[i] =
                BitmapAccount(tickPosition(LastStep.tickNext \div tickSpacing(pool)).wordPos)

\* a swap that crossed an initialized tick in its second word
C21_Witness ==
  /\ StepTaken /\ LastStep.tickFetched
  /\ Len(SwapAccounts) >= 3
  /\ version = "pool"


(***************************************************************************)
(* The position of a lookup, over SpecLookup                                *)
(***************************************************************************)
LookupDone == pc = "returned" /\ ~IsNil(call) /\ "tickSpacing" \in DOMAIN call

\* C22: for every tick, spacing and direction the compressed tick c is the
\* floor of tick / tickSpacing, plus 1 when lte is false, wordPos * 256 +
\* bitPos = c with 0 <= bitPos <= 255, and the provider with Math.floor and
\* the providers with the truncating division give the same position
C22_FloorPosition ==
  LookupDone =>
    /\ outcome.floor = outcome.divide
    /\ \E quotient \in {outcome.floor.compressed - (IF call.lte THEN 0 ELSE 1)} :
         /\ quotient * call.tickSpacing <= call.tick
         /\ call.tick < (quotient + 1) * call.tickSpacing
    /\ outcome.floor.wordPos * 256 + outcome.floor.bitPos = outcome.floor.compressed
    /\ outcome.floor.bitPos \in 0..255

\* a negative tick that is not a multiple of the spacing, in a negative word
C22_Witness ==
  /\ LookupDone
  /\ call.tick < 0 /\ call.tick % call.tickSpacing # 0
  /\ outcome.divide.wordPos < -1
  /\ outcome.divide.bitPos > 0


(***************************************************************************)
(* Exact output, over Spec                                                  *)
(***************************************************************************)
\* the remaining amount before the last step of an exact-output swap
RemainingBeforeStep == subtract(state.amountSpecifiedRemaining, LastStep.amountOut)

\* C23: a step of an exact-output swap never returns more output than the
\* magnitude of the amount that remained, so the remaining amount of an
\* exact-output swap never passes zero
C23_ExactOutputNeverOvershoots ==
  StepTaken /\ ~call.exactInput =>
    /\ lessThanOrEqual(LastStep.amountOut, unaryMinus(RemainingBeforeStep))
    /\ lessThanOrEqual(state.amountSpecifiedRemaining, ZERO)

\* an exact-output step that ended inside the range with the requested
\* output delivered in full
C23_Witness ==
  /\ StepTaken /\ ~call.exactInput
  /\ ~LastStep.endsOnTickNext
  /\ greaterThan(LastStep.amountOut, ZERO)
  /\ equal(state.amountSpecifiedRemaining, ZERO)


(***************************************************************************)
(* SqrtPriceMath and LiquidityMath, over SpecMath                           *)
(***************************************************************************)
MathDone(ops) == pc = "returned" /\ call.op \in ops

\* the pool cannot absorb the output asked of getNextSqrtPriceFromOutput:
\* ceil(amount * 2^32 / liquidity) >= sqrtPX32 for token1 out, and
\* amount * sqrtPX32 >= liquidity * 2^32 for token0 out
CannotAbsorb ==
  /\ call.op = "getNextSqrtPriceFromOutput"
  /\ greaterThan(call.liquidity, ZERO)
  /\ IF call.zeroForOne
       THEN greaterThan(leftShift(call.amount, 32),
                        multiply(subtract(call.sqrtPX32, ONE), call.liquidity))
       ELSE greaterThanOrEqual(multiply(call.amount, call.sqrtPX32),
                               leftShift(call.liquidity, 32))

\* C24: getNextSqrtPriceFromInput and getNextSqrtPriceFromOutput fail on a
\* price or a liquidity that is not positive, getNextSqrtPriceFromOutput
\* fails when the pool cannot absorb the output, and a returned price is
\* positive and lies on the side of the old price the trade moves it to
C24_NextPriceFailsOrIsPositive ==
  MathDone({"getNextSqrtPriceFromInput", "getNextSqrtPriceFromOutput"}) =>
    /\ (\/ ~greaterThan(call.sqrtPX32, ZERO)
        \/ ~greaterThan(call.liquidity, ZERO)
        \/ CannotAbsorb) => IsErr(outcome)
    /\ ~IsErr(outcome) =>
         /\ greaterThan(outcome.val, ZERO)
         /\ IF call.zeroForOne
              THEN lessThanOrEqual(outcome.val, call.sqrtPX32)
              ELSE greaterThanOrEqual(outcome.val, call.sqrtPX32)

\* an output of token1 that the pool absorbs, the price moving down
C24_Witness ==
  /\ MathDone({"getNextSqrtPriceFromOutput"})
  /\ call.zeroForOne
  /\ greaterThan(call.amount, ZERO)
  /\ ~IsErr(outcome)
  /\ lessThan(outcome.val, call.sqrtPX32)


\* the two prices of a call of getAmount0Delta / getAmount1Delta in order
SqrtLow ==
  IF greaterThan(call.sqrtRatioAX32, call.sqrtRatioBX32)
    THEN call.sqrtRatioBX32 ELSE call.sqrtRatioAX32

SqrtHigh ==
  IF greaterThan(call.sqrtRatioAX32, call.sqrtRatioBX32)
    THEN call.sqrtRatioAX32 ELSE call.sqrtRatioBX32

\* the exact amount as a fraction
DeltaNumerator ==
  IF call.op = "getAmount0Delta"
    THEN multiply(leftShift(call.liquidity, 32), subtract(SqrtHigh, SqrtLow))
    ELSE multiply(call.liquidity, subtract(SqrtHigh, SqrtLow))

DeltaDenominator ==
  IF call.op = "getAmount0Delta" THEN multiply(SqrtHigh, SqrtLow) ELSE Q32

\* C25: getAmount0Delta and getAmount1Delta give the same result for the two
\* orders of the prices; with roundUp the result is the ceiling of the exact
\* amount and otherwise its floor, and the result rounded up is never less
\* than the result rounded down
C25_DeltaRounding ==
  MathDone({"getAmount0Delta", "getAmount1Delta"}) =>
    /\ outcome.val = outcome.exchanged
    /\ ~IsErr(outcome.val) =>
         /\ IF call.roundUp
              THEN /\ greaterThanOrEqual(multiply(outcome.val, DeltaDenominator),
                                         DeltaNumerator)
                   /\ lessThan(multiply(subtract(outcome.val, ONE), DeltaDenominator),
                               DeltaNumerator)
              ELSE /\ lessThanOrEqual(multiply(outcome.val, DeltaDenominator),
                                      DeltaNumerator)
                   /\ greaterThan(multiply(add(outcome.val, ONE), DeltaDenominator),
                                  DeltaNumerator)
         /\ IF call.roundUp THEN greaterThanOrEqual(outcome.val, outcome.opposite)
            ELSE lessThanOrEqual(outcome.val, outcome.opposite)

\* prices given in descending order, and an amount that is not a whole
\* number, so that the two roundings differ
C25_Witness ==
  /\ MathDone({"getAmount0Delta", "getAmount1Delta"})
  /\ greaterThan(call.sqrtRatioAX32, call.sqrtRatioBX32)
  /\ ~IsErr(outcome.val)
  /\ call.roundUp
  /\ greaterThan(outcome.val, outcome.opposite)


\* C26: addDelta(x, y) is x - |y| when y < 0 and x + y otherwise, and it
\* either fails or returns a liquidity that is not negative
C26_AddDeltaUnsigned ==
  MathDone({"addDelta"}) =>
    /\ ~IsErr(outcome) =>
         outcome = IF lessThan(call.y, ZERO)
                     THEN subtract(call.x, unaryMinus(call.y))
                     ELSE add(call.x, call.y)
    /\ IsErr(outcome) \/ greaterThanOrEqual(outcome, ZERO)


\* x mod 2^128
Mod128(x) == remainder(x, leftShift(ONE, 128))

\* the masked product of the amount-0 formula lost precision
ProductLostPrecision ==
  \/ ~equal(divide(Mod128(multiply(call.amount, call.sqrtPX32)), call.amount),
            call.sqrtPX32)
  \/ lessThan(Mod128(add(leftShift(call.liquidity, 32),
                         Mod128(multiply(call.amount, call.sqrtPX32)))),
              leftShift(call.liquidity, 32))

\* ceil(liquidity * 2^32 / (floor(liquidity * 2^32 / sqrtPX32) + amount))
OverflowSafeNextPrice ==
  mulDivRoundingUp(leftShift(call.liquidity, 32), ONE,
                   add(divide(leftShift(call.liquidity, 32), call.sqrtPX32), call.amount))

\* C27: multiplyIn128(x, y) is (x * y) mod 2^128 and addIn128(x, y) is
\* (x + y) mod 2^128, and the amount-0 formula returns the overflow-safe form
\* when the masked product lost precision
C27_MaskedTo128Bits ==
  /\ MathDone({"multiplyIn128"}) => outcome = Mod128(multiply(call.x, call.y))
  /\ MathDone({"addIn128"}) => outcome = Mod128(add(call.x, call.y))
  /\ /\ MathDone({"getNextSqrtPriceFromInput"})
     /\ call.zeroForOne
     /\ greaterThan(call.amount, ZERO)
     /\ ~IsErr(outcome)
     /\ ProductLostPrecision
     => outcome.val = OverflowSafeNextPrice

(***************************************************************************)
(* Termination of the loop of swap, over SpecTermination                   *)
(***************************************************************************)
\* what the last iteration took from the remaining amount
StepSpent ==
  IF call.exactInput THEN add(LastStep.amountIn, LastStep.feeAmount)
  ELSE LastStep.amountOut

\* the last iteration moved the tick strictly in the direction of the trade
StepMovedTick ==
  IF call.zeroForOne THEN lessThan(state.tick, LastStep.tickBefore)
  ELSE greaterThan(state.tick, LastStep.tickBefore)

\* the last iteration ended the trade or moved the tick, and it did not leave
\* remaining amount, price and tick all as they were
StepProgress ==
  /\ \/ equal(state.amountSpecifiedRemaining, ZERO)
     \/ state.priceIsLimit
     \/ StepMovedTick
  /\ \/ ~equal(StepSpent, ZERO)
     \/ ~equal(state.sqrtPriceX32, LastStep.sqrtPriceStartX32)
     \/ ~equal(state.tick, LastStep.tickBefore)

\* C28: every iteration of the loop of swap brings the remaining amount to 0,
\* reaches the price limit or moves the tick strictly in the direction of
\* the trade, none leaves remaining amount, price and tick all unchanged,
\* and every swap that entered its loop leaves it (returns or throws).
C28_SwapTerminates ==
  /\ [](StepTaken => StepProgress)
  /\ (pc = "loop") ~> (pc \in {"returned", "failed"})

\* a swap over a directory that answers, returned after more than one
\* iteration, one of which ended on the price of the next tick
C28_Witness ==
  /\ pool.tickDataProvider = "solana"
  /\ QuoteStarted /\ pc = "returned"
  /\ StepTaken /\ lookups >= 2
  /\ stepComputations.ticksReached >= 1

(***************************************************************************)
(* The signs of the amounts of a swap, over Spec                           *)
(***************************************************************************)
\* swap has built its scratch state for a quote
SwapStarted == QuoteStarted /\ ~IsNil(state)

LaterLookups ==
  {c \in Callers : /\ quotes[c].pc = "done"
                   /\ quotes[c].op \in {"getBitmap", "getTick"}
                   /\ quotes[c].after}

\* what the first lookup of the key of q returned
FirstAnswer(q) ==
  IF q.op = "getBitmap" THEN outcome.bitmaps[q.key] ELSE outcome.ticks[q.key]

\* the entry of the key of q was stored again after the first lookup of it
StoredAgain(q) ==
  <<IF q.op = "getBitmap" THEN "b" ELSE "t", q.key>> \in outcome.stored

\* no entry of cache is removed or changed by the step
EntriesKept(cache, after) ==
  \A k \in DOMAIN cache : k \in DOMAIN after /\ after[k] = cache[k]

\* C30 as stated: a lookup made after a lookup of the same word or tick has
\* returned makes no remote fetch and returns what the first one returned,
\* and no step changes or removes an entry of bitmapCache or of tickCache
C30_CacheEntriesPermanent ==
  /\ [](\A c \in LaterLookups :
          ~quotes[c].fetched /\ quotes[c].answer = FirstAnswer(quotes[c]))
  /\ [][EntriesKept(bitmapCache, bitmapCache') /\ EntriesKept(tickCache, tickCache')]_vars

\* C30 amended: a lookup made after a lookup of the same word or tick has
\* returned makes no remote fetch, and returns what the first one returned
\* unless the entry was stored again in between; no entry is ever removed,
\* no entry of tickCache changes, and an entry of bitmapCache changes only
\* when a fetch that getBitmap or eagerLoadCache was awaiting returns
C30_CacheAnswersLaterLookups ==
  /\ [](\A c \in LaterLookups :
          /\ ~quotes[c].fetched
          /\ ~StoredAgain(quotes[c]) => quotes[c].answer = FirstAnswer(quotes[c]))
  /\ [][/\ DOMAIN bitmapCache \subseteq DOMAIN bitmapCache'
        /\ EntriesKept(tickCache, tickCache')
        /\ ~EntriesKept(bitmapCache, bitmapCache') =>
             \E c \in Callers : /\ quotes[c].pc \in {"fetchBitmap", "fetchBitmaps"}
                                /\ quotes'[c].pc # quotes[c].pc]_vars

\* word 0 has set bits in the store, its fetch failed and it was cached as
\* all zero; a later lookup of it returned the zero word without a fetch
C30_Witness ==
  \E c \in LaterLookups :
    /\ quotes[c].op = "getBitmap" /\ quotes[c].key = 0
    /\ ~quotes[c].fetched
    /\ quotes[c].answer.word = {}
    /\ quotes[c].answer = outcome.bitmaps[0]
    /\ generateBitmapWord(tickStateAccounts, 0, CacheSpacing) # {}
====
